---- MODULE Spec2Model ----
(***************************************************************************)
(* Model of the auth-service of ai-quiz-platform: AuthService              *)
(* (src/auth/auth_service.py) and AuditLogger (src/utils/audit_logger.py)  *)
(* over the MongoDB collections `users` and `audit_logs`.                  *)
(*                                                                         *)
(* Every request is a coroutine.  A coroutine runs without interruption    *)
(* between two awaits, and every await in these files is one database      *)
(* call, so one step of a process is: one database call takes effect, and  *)
(* the coroutine then runs on up to the point where it issues its next     *)
(* database call (or returns).  Values computed in that stretch            *)
(* (datetime.utcnow(), update_data, the audit log_entry) are kept in the    *)
(* process's locals until the call that uses them takes effect.            *)
(***************************************************************************)
EXTENDS Integers, Sequences, FiniteSets, TLC

VARIABLES
    users,      \* the users collection: a set of documents, each with an _id
    audit,      \* the audit_logs collection, in insertion order
    now,        \* datetime.utcnow(), in minutes
    proc,       \* per request slot: position and locals of the coroutine
    nextId,     \* the next ObjectId the store hands out
    nextTok,    \* the next value secrets.token_urlsafe returns
    ops,        \* number of requests that may still start
    auditDown,  \* the audit_logs collection rejects writes
    uniqueIdx   \* the unique indexes on username and email exist

vars == <<users, audit, now, proc, nextId, nextTok, ops, auditDown, uniqueIdx>>

---------------------------------------------------------------------------
\* Program constants (AuthService class attributes).
MAX_LOGIN_ATTEMPTS == 5
LOCKOUT_DURATION_MINUTES == 15
PASSWORD_RESET_TOKEN_EXPIRY_MINUTES == 30

\* Bounds of the model.
NumProcs == 2
MaxTime == 30
MaxOps == 2

Procs == 1..NumProcs

\* None for an optional datetime (locked_until, last_login, last_activity).
None == 0 - 1

Usernames == {"alice", "bob"}
Emails == {"a@x.io", "b@x.io"}
StrongPasswords == {"Passw0rd!A", "Passw0rd!B"}
Passwords == StrongPasswords \cup {"weakpass123!"}
Roles == {"user", "admin"}
FullNames == {"Ann", "Bea"}

\* The clock is observed at multiples of the lockout window: every time the
\* code compares with now is an earlier now plus 15 or plus 30 minutes, so
\* before, at and after each deadline all occur.
TickSteps == {LOCKOUT_DURATION_MINUTES}

---------------------------------------------------------------------------
\* password_utils (the module is imported by auth_service.py; its behaviour
\* is the one test_auth.py::TestPasswordUtils pins down).
validate_password_strength(pw) == pw \in StrongPasswords

hash_password(pw) == <<"bcrypt", pw>>

verify_password(pw, hashed) == hashed = hash_password(pw)

---------------------------------------------------------------------------
\* Results returned to the caller.
Ok(msg) == [success |-> TRUE, msg |-> msg, val |-> None]
OkVal(msg, v) == [success |-> TRUE, msg |-> msg, val |-> v]
Err(msg) == [success |-> FALSE, msg |-> msg, val |-> None]
ErrVal(msg, v) == [success |-> FALSE, msg |-> msg, val |-> v]
NoRes == [success |-> FALSE, msg |-> "", val |-> None]

InvalidCredential == Err("Invalid username or password")
LockedMsg == "Account is locked. Try again in N minutes"
InvalidOrExpiredToken == Err("Invalid or expired reset token")

\* Exceptions of the driver that the handlers do not catch.
AuditWriteError == "PyMongoError: audit_logs insert_one"
DuplicateKeyError == "DuplicateKeyError"

\* A coroutine's locals.
Idle == [pc |-> "idle", op |-> "", name |-> "", pw |-> "", uid |-> 0,
         doc |-> <<>>, upd |-> <<>>, tok |-> None, ev |-> <<>>, res |-> NoRes]

Finished(p) == proc[p].pc \in {"done", "raised"}
Free(p) == proc[p].pc = "idle" \/ Finished(p)
\* Request slots are interchangeable: a new request takes the first free one.
FirstFree(p) == Free(p) /\ \A q \in 1..(p - 1) : ~Free(q)

\* return <result>; the caller keeps the operation and the token it named
Return(l, r) == [Idle EXCEPT !.pc = "done", !.op = l.op, !.tok = l.tok, !.res = r]
\* an exception leaves the coroutine
Raise(l, exc) ==
    [Idle EXCEPT !.pc = "raised", !.op = l.op, !.tok = l.tok, !.res = Err(exc)]

---------------------------------------------------------------------------
\* The store's primitives.

\* find_one(filter): the first matching document in natural (insertion) order.
FindOne(matches) ==
    IF matches = {} THEN <<>>
    ELSE CHOOSE d \in matches : \A e \in matches : d._id <= e._id

Found(d) == d /= <<>>

FindByUsername(u) == FindOne({d \in users : d.username = u})
FindByEmail(e) == FindOne({d \in users : d.email = e})

\* {"$set": upd} applied to one document.
SetFields(d, upd) ==
    [f \in DOMAIN d |-> IF f \in DOMAIN upd THEN upd[f] ELSE d[f]]

\* UpdateOneSet with an empty filter (every document is updated).
UpdateEverySet(id, upd) == {SetFields(d, upd) : d \in users}

\* update_one({"_id": id}, {"$set": upd}); no document, no effect.
UpdateOneSet(id, upd) ==
    {IF d._id = id THEN SetFields(d, upd) ELSE d : d \in users}

\* AuditLogger.log_event builds log_entry with the current time.
LogEntry(type, u, ok) ==
    [event_type |-> type, username |-> u, timestamp |-> now, success |-> ok]

\* await audit_collection.insert_one(log_entry): appends, or raises when the
\* collection is unavailable; next is the coroutine's state after the await.
InsertAudit(p, next) ==
    IF auditDown
    THEN /\ proc' = [proc EXCEPT ![p] = Raise(proc[p], AuditWriteError)]
         /\ UNCHANGED audit
    ELSE /\ audit' = Append(audit, proc[p].ev)
         /\ proc' = [proc EXCEPT ![p] = next]

---------------------------------------------------------------------------
\* authenticate_user

\* VerifyLogin with the threshold test off by one (> for >=).
VerifyLoginLate(l, d, cnt) ==
    IF ~verify_password(l.pw, d.hashed_password)
    THEN LET n == cnt + 1
         IN IF n > MAX_LOGIN_ATTEMPTS
            THEN [l EXCEPT !.pc = "login_fail_audit", !.doc = <<>>,
                    !.upd = [failed_login_attempts |-> n,
                             locked_until |-> now + LOCKOUT_DURATION_MINUTES],
                    !.ev = LogEntry("account_locked", l.name, FALSE)]
            ELSE [l EXCEPT !.pc = "login_fail_audit", !.doc = <<>>,
                    !.upd = [failed_login_attempts |-> n],
                    !.ev = LogEntry("failed_login", l.name, FALSE)]
    ELSE IF ~d.is_active
    THEN [l EXCEPT !.pc = "login_inactive_audit", !.doc = <<>>,
            !.ev = LogEntry("login_attempt_inactive", l.name, FALSE)]
    ELSE [l EXCEPT !.pc = "login_success_update", !.doc = <<>>,
            !.upd = [last_login |-> now, last_activity |-> now,
                     failed_login_attempts |-> 0]]

\* VerifyLogin without the is_active check.
VerifyLoginAnyActive(l, d, cnt) ==
    IF ~verify_password(l.pw, d.hashed_password)
    THEN LET n == cnt + 1
         IN IF n >= MAX_LOGIN_ATTEMPTS
            THEN [l EXCEPT !.pc = "login_fail_audit", !.doc = <<>>,
                    !.upd = [failed_login_attempts |-> n,
                             locked_until |-> now + LOCKOUT_DURATION_MINUTES],
                    !.ev = LogEntry("account_locked", l.name, FALSE)]
            ELSE [l EXCEPT !.pc = "login_fail_audit", !.doc = <<>>,
                    !.upd = [failed_login_attempts |-> n],
                    !.ev = LogEntry("failed_login", l.name, FALSE)]
    ELSE [l EXCEPT !.pc = "login_success_update", !.doc = <<>>,
            !.upd = [last_login |-> now, last_activity |-> now,
                     failed_login_attempts |-> 0]]

\* Lines 137-172 up to the next await: the password check on the local
\* user_doc whose counter is cnt.
VerifyLogin(l, d, cnt) ==
    IF ~verify_password(l.pw, d.hashed_password)
    THEN LET n == cnt + 1
         IN IF n >= MAX_LOGIN_ATTEMPTS
            THEN [l EXCEPT !.pc = "login_fail_audit", !.doc = <<>>,
                    !.upd = [failed_login_attempts |-> n,
                             locked_until |-> now + LOCKOUT_DURATION_MINUTES],
                    !.ev = LogEntry("account_locked", l.name, FALSE)]
            ELSE [l EXCEPT !.pc = "login_fail_audit", !.doc = <<>>,
                    !.upd = [failed_login_attempts |-> n],
                    !.ev = LogEntry("failed_login", l.name, FALSE)]
    ELSE IF ~d.is_active
    THEN [l EXCEPT !.pc = "login_inactive_audit", !.doc = <<>>,
            !.ev = LogEntry("login_attempt_inactive", l.name, FALSE)]
    ELSE [l EXCEPT !.pc = "login_success_update", !.doc = <<>>,
            !.upd = [last_login |-> now, last_activity |-> now,
                     failed_login_attempts |-> 0]]

\* Lines 114-127 and on to the next await: the handler on the document d
\* that find_one returned (<<>> for None).
LoginEnter(l, d) ==
    IF ~Found(d)
    THEN [l EXCEPT !.pc = "login_nouser_audit",
            !.ev = LogEntry("failed_login", l.name, FALSE)]
    ELSE IF d.locked_until /= None
    THEN IF d.locked_until > now
         THEN [l EXCEPT !.pc = "login_locked_audit", !.uid = d._id,
                 !.res = ErrVal(LockedMsg, d.locked_until - now),
                 !.ev = LogEntry("login_attempt_locked", l.name, FALSE)]
         ELSE [l EXCEPT !.pc = "login_unlock", !.uid = d._id, !.doc = d]
    ELSE VerifyLogin([l EXCEPT !.uid = d._id], d, d.failed_login_attempts)

LoginLocals(u, pw) == [Idle EXCEPT !.op = "login", !.name = u, !.pw = pw]

\* Line 112: find_one by username.
LoginFind(p, u, pw) ==
    /\ FirstFree(p)
    /\ ops > 0
    /\ ops' = ops - 1
    /\ proc' = [proc EXCEPT ![p] =
                  LoginEnter(LoginLocals(u, pw), FindByUsername(u))]
    /\ UNCHANGED <<users, audit, now, nextId, nextTok, auditDown, uniqueIdx>>

\* LoginNoUserAudit that tells the caller the username is unknown.
LoginNoUserAuditTelling(p) ==
    /\ proc[p].pc = "login_nouser_audit"
    /\ InsertAudit(p, Return(proc[p], Err("User not found")))
    /\ UNCHANGED <<users, now, nextId, nextTok, ops, auditDown, uniqueIdx>>

\* LoginNoUserAudit that returns without logging the attempt.
LoginNoUserAuditSilent(p) ==
    /\ proc[p].pc = "login_nouser_audit"
    /\ proc' = [proc EXCEPT ![p] = Return(proc[p], InvalidCredential)]
    /\ UNCHANGED <<users, audit, now, nextId, nextTok, ops, auditDown, uniqueIdx>>

\* Lines 115-117
LoginNoUserAudit(p) ==
    /\ proc[p].pc = "login_nouser_audit"
    /\ InsertAudit(p, Return(proc[p], InvalidCredential))
    /\ UNCHANGED <<users, now, nextId, nextTok, ops, auditDown, uniqueIdx>>

\* LoginLockedAudit that restarts the lockout at every refused attempt.
LoginLockedAuditExtend(p) ==
    /\ proc[p].pc = "login_locked_audit"
    /\ users' = UpdateOneSet(proc[p].uid,
                    [locked_until |-> now + LOCKOUT_DURATION_MINUTES])
    /\ InsertAudit(p, Return(proc[p], proc[p].res))
    /\ UNCHANGED <<now, nextId, nextTok, ops, auditDown, uniqueIdx>>

\* Lines 125-127
LoginLockedAudit(p) ==
    /\ proc[p].pc = "login_locked_audit"
    /\ InsertAudit(p, Return(proc[p], proc[p].res))
    /\ UNCHANGED <<users, now, nextId, nextTok, ops, auditDown, uniqueIdx>>

\* LoginUnlock whose write is dropped (the lock stays in the store).
LoginUnlockKeep(p) ==
    /\ proc[p].pc = "login_unlock"
    /\ proc' = [proc EXCEPT ![p] = VerifyLogin(proc[p], proc[p].doc, 0)]
    /\ UNCHANGED <<users, audit, now, nextId, nextTok, ops, auditDown, uniqueIdx>>

\* LoginUnlock that clears the store and checks the password against the
\* counter it read (the local user_doc is not reset).
LoginUnlockStaleCount(p) ==
    /\ proc[p].pc = "login_unlock"
    /\ users' = UpdateOneSet(proc[p].uid,
                    [locked_until |-> None, failed_login_attempts |-> 0])
    /\ proc' = [proc EXCEPT ![p] =
                  VerifyLogin(proc[p], proc[p].doc,
                              proc[p].doc.failed_login_attempts)]
    /\ UNCHANGED <<audit, now, nextId, nextTok, ops, auditDown, uniqueIdx>>

\* LoginUnlock that clears the lock expiry and leaves the counter.
LoginUnlockLockOnly(p) ==
    /\ proc[p].pc = "login_unlock"
    /\ users' = UpdateOneSet(proc[p].uid, [locked_until |-> None])
    /\ proc' = [proc EXCEPT ![p] = VerifyLogin(proc[p], proc[p].doc, 0)]
    /\ UNCHANGED <<audit, now, nextId, nextTok, ops, auditDown, uniqueIdx>>

\* Lines 129-135, then the password check on the local copy.
LoginUnlock(p) ==
    /\ proc[p].pc = "login_unlock"
    /\ users' = UpdateOneSet(proc[p].uid,
                    [locked_until |-> None, failed_login_attempts |-> 0])
    /\ proc' = [proc EXCEPT ![p] = VerifyLogin(proc[p], proc[p].doc, 0)]
    /\ UNCHANGED <<audit, now, nextId, nextTok, ops, auditDown, uniqueIdx>>

\* Lines 147-151: the audit entry is written before the counter.
LoginFailAudit(p) ==
    /\ proc[p].pc = "login_fail_audit"
    /\ InsertAudit(p, [proc[p] EXCEPT !.pc = "login_fail_update"])
    /\ UNCHANGED <<users, now, nextId, nextTok, ops, auditDown, uniqueIdx>>

\* LoginFailUpdate that returns without storing the new counter.
LoginFailUpdateSkip(p) ==
    /\ proc[p].pc = "login_fail_update"
    /\ proc' = [proc EXCEPT ![p] = Return(proc[p], InvalidCredential)]
    /\ UNCHANGED <<users, audit, now, nextId, nextTok, ops, auditDown, uniqueIdx>>

\* Lines 153-158
LoginFailUpdate(p) ==
    /\ proc[p].pc = "login_fail_update"
    /\ users' = UpdateOneSet(proc[p].uid, proc[p].upd)
    /\ proc' = [proc EXCEPT ![p] = Return(proc[p], InvalidCredential)]
    /\ UNCHANGED <<audit, now, nextId, nextTok, ops, auditDown, uniqueIdx>>

\* Lines 160-164
LoginInactiveAudit(p) ==
    /\ proc[p].pc = "login_inactive_audit"
    /\ InsertAudit(p, Return(proc[p], Err("Account is deactivated")))
    /\ UNCHANGED <<users, now, nextId, nextTok, ops, auditDown, uniqueIdx>>

\* LoginSuccessUpdate that stamps the login times and leaves the counter.
LoginSuccessUpdateKeep(p) ==
    /\ proc[p].pc = "login_success_update"
    /\ users' = UpdateOneSet(proc[p].uid,
                    [last_login |-> now, last_activity |-> now])
    /\ proc' = [proc EXCEPT ![p] =
                  [proc[p] EXCEPT !.pc = "login_success_audit", !.upd = <<>>,
                      !.ev = LogEntry("login_success", proc[p].name, TRUE)]]
    /\ UNCHANGED <<audit, now, nextId, nextTok, ops, auditDown, uniqueIdx>>

\* Lines 166-181: the counter is reset, then log_event is called.
LoginSuccessUpdate(p) ==
    /\ proc[p].pc = "login_success_update"
    /\ users' = UpdateOneSet(proc[p].uid, proc[p].upd)
    /\ proc' = [proc EXCEPT ![p] =
                  [proc[p] EXCEPT !.pc = "login_success_audit", !.upd = <<>>,
                      !.ev = LogEntry("login_success", proc[p].name, TRUE)]]
    /\ UNCHANGED <<audit, now, nextId, nextTok, ops, auditDown, uniqueIdx>>

\* Lines 181-192
LoginSuccessAudit(p) ==
    /\ proc[p].pc = "login_success_audit"
    /\ InsertAudit(p, Return(proc[p], Ok("bearer")))
    /\ UNCHANGED <<users, now, nextId, nextTok, ops, auditDown, uniqueIdx>>

Login(p) ==
    \/ \E u \in Usernames, pw \in Passwords : LoginFind(p, u, pw)
    \/ LoginNoUserAudit(p)
    \/ LoginLockedAudit(p)
    \/ LoginUnlock(p)
    \/ LoginFailAudit(p)
    \/ LoginFailUpdate(p)
    \/ LoginInactiveAudit(p)
    \/ LoginSuccessUpdate(p)
    \/ LoginSuccessAudit(p)

---------------------------------------------------------------------------
\* ensure_indexes: the unique indexes on username and email.  No handler and
\* no startup hook calls it (main.py startup only prints); it takes effect
\* when an operator runs it, and create_index fails on existing duplicates.
NoDuplicates(S) ==
    \A d \in S : \A e \in S :
        (d._id /= e._id) => (d.username /= e.username /\ d.email /= e.email)

EnsureIndexes ==
    /\ ~uniqueIdx
    /\ uniqueIdx' = NoDuplicates(users)
    /\ UNCHANGED <<users, audit, now, proc, nextId, nextTok, ops, auditDown>>

\* A write is refused with DuplicateKeyError when the unique indexes exist
\* and the collection after the write would hold a duplicate key.
Refused(after) == uniqueIdx /\ ~NoDuplicates(after)

---------------------------------------------------------------------------
\* create_user

\* user_dict; the reserved 2FA fields are constant and left out.
UserDict(u, e, fn, pw, t) ==
    [username |-> u, email |-> e, full_name |-> fn,
     hashed_password |-> hash_password(pw), is_active |-> TRUE,
     role |-> "user", failed_login_attempts |-> 0, locked_until |-> None,
     password_reset_tokens |-> <<>>, created_at |-> t,
     last_login |-> None, last_activity |-> None]

WithId(ud, id) ==
    [f \in DOMAIN ud \cup {"_id"} |-> IF f = "_id" THEN id ELSE ud[f]]

\* CreateFind without the look-up of an existing user.
CreateFindNoLookup(p, u, e, fn, pw) ==
    /\ FirstFree(p)
    /\ ops > 0
    /\ ops' = ops - 1
    /\ LET l == [Idle EXCEPT !.op = "create", !.name = u, !.pw = pw]
       IN proc' = [proc EXCEPT ![p] =
            IF ~validate_password_strength(pw)
            THEN Return(l, Err("weak password"))
            ELSE [l EXCEPT !.pc = "create_insert",
                           !.doc = UserDict(u, e, fn, pw, now)]]
    /\ UNCHANGED <<users, audit, now, nextId, nextTok, auditDown, uniqueIdx>>

\* Lines 50-84: strength check, the advisory find_one, user_dict.
CreateFind(p, u, e, fn, pw) ==
    /\ FirstFree(p)
    /\ ops > 0
    /\ ops' = ops - 1
    /\ LET l == [Idle EXCEPT !.op = "create", !.name = u, !.pw = pw]
           existing == FindOne({d \in users : d.username = u \/ d.email = e})
       IN proc' = [proc EXCEPT ![p] =
            IF ~validate_password_strength(pw)
            THEN Return(l, Err("weak password"))
            ELSE IF Found(existing)
            THEN Return(l, Err(IF existing.username = u
                               THEN "User with this username already exists"
                               ELSE "User with this email already exists"))
            ELSE [l EXCEPT !.pc = "create_insert",
                           !.doc = UserDict(u, e, fn, pw, now)]]
    /\ UNCHANGED <<users, audit, now, nextId, nextTok, auditDown, uniqueIdx>>

\* Lines 86-92: insert_one.
CreateInsert(p) ==
    /\ proc[p].pc = "create_insert"
    /\ LET after == users \cup {WithId(proc[p].doc, nextId)}
       IN IF Refused(after)
          THEN /\ proc' = [proc EXCEPT ![p] = Raise(proc[p], DuplicateKeyError)]
               /\ UNCHANGED <<users, nextId>>
          ELSE /\ users' = after
               /\ nextId' = nextId + 1
               /\ proc' = [proc EXCEPT ![p] =
                    [proc[p] EXCEPT !.pc = "create_audit", !.uid = nextId,
                        !.doc = <<>>,
                        !.ev = LogEntry("user_registration", proc[p].name, TRUE)]]
    /\ UNCHANGED <<audit, now, nextTok, ops, auditDown, uniqueIdx>>

\* Lines 91-99
CreateAudit(p) ==
    /\ proc[p].pc = "create_audit"
    /\ InsertAudit(p, Return(proc[p], Ok("User created successfully")))
    /\ UNCHANGED <<users, now, nextId, nextTok, ops, auditDown, uniqueIdx>>

CreateUser(p) ==
    \/ \E u \in Usernames, e \in Emails, fn \in FullNames, pw \in Passwords :
          CreateFind(p, u, e, fn, pw)
    \/ CreateInsert(p)
    \/ CreateAudit(p)

---------------------------------------------------------------------------
\* request_password_reset

ResetAck == "If email exists, reset link will be sent"

\* Lines 219-237: find_one by email, then the token document.
ReqResetFind(p, e) ==
    /\ FirstFree(p)
    /\ ops > 0
    /\ ops' = ops - 1
    /\ LET d == FindByEmail(e)
           l == [Idle EXCEPT !.op = "reqreset"]
       IN IF ~Found(d)
          THEN /\ proc' = [proc EXCEPT ![p] =
                    [l EXCEPT !.pc = "reqreset_nouser_audit",
                        !.ev = LogEntry("password_reset_requested", "unknown", FALSE)]]
               /\ UNCHANGED nextTok
          ELSE /\ proc' = [proc EXCEPT ![p] =
                    [l EXCEPT !.pc = "reqreset_push", !.name = d.username,
                        !.uid = d._id, !.tok = nextTok,
                        !.upd = [token |-> nextTok, created_at |-> now,
                                 expires_at |-> now + PASSWORD_RESET_TOKEN_EXPIRY_MINUTES,
                                 used |-> FALSE]]]
               /\ nextTok' = nextTok + 1
    /\ UNCHANGED <<users, audit, now, nextId, auditDown, uniqueIdx>>

\* Lines 223-225
ReqResetNoUserAudit(p) ==
    /\ proc[p].pc = "reqreset_nouser_audit"
    /\ InsertAudit(p, Return(proc[p], Ok(ResetAck)))
    /\ UNCHANGED <<users, now, nextId, nextTok, ops, auditDown, uniqueIdx>>

\* ReqResetPush that replaces the token list by the new token ($set for $push).
ReqResetPushReplace(p) ==
    /\ proc[p].pc = "reqreset_push"
    /\ users' = {IF d._id = proc[p].uid
                 THEN [d EXCEPT !.password_reset_tokens = <<proc[p].upd>>]
                 ELSE d : d \in users}
    /\ proc' = [proc EXCEPT ![p] =
                  [proc[p] EXCEPT !.pc = "reqreset_audit", !.upd = <<>>,
                      !.ev = LogEntry("password_reset_requested", proc[p].name, TRUE)]]
    /\ UNCHANGED <<audit, now, nextId, nextTok, ops, auditDown, uniqueIdx>>

\* Lines 239-244: $push of the token document.
ReqResetPush(p) ==
    /\ proc[p].pc = "reqreset_push"
    /\ users' = {IF d._id = proc[p].uid
                 THEN [d EXCEPT !.password_reset_tokens = Append(@, proc[p].upd)]
                 ELSE d : d \in users}
    /\ proc' = [proc EXCEPT ![p] =
                  [proc[p] EXCEPT !.pc = "reqreset_audit", !.upd = <<>>,
                      !.ev = LogEntry("password_reset_requested", proc[p].name, TRUE)]]
    /\ UNCHANGED <<audit, now, nextId, nextTok, ops, auditDown, uniqueIdx>>

\* Lines 244-251
ReqResetAudit(p) ==
    /\ proc[p].pc = "reqreset_audit"
    /\ InsertAudit(p, Return(proc[p], OkVal(ResetAck, proc[p].tok)))
    /\ UNCHANGED <<users, now, nextId, nextTok, ops, auditDown, uniqueIdx>>

\* routes.forgot_password: the body built from the service result;
\* result.get("reset_token") is None when the result has no such key.
forgot_password(r) == [message |-> r.msg, reset_token |-> r.val]

RequestPasswordReset(p) ==
    \/ \E e \in Emails : ReqResetFind(p, e)
    \/ ReqResetNoUserAudit(p)
    \/ ReqResetPush(p)
    \/ ReqResetAudit(p)

---------------------------------------------------------------------------
\* reset_password

\* ElemMatch without the expires_at condition.
ElemMatchNoExpiry(d, t) ==
    \E i \in 1..Len(d.password_reset_tokens) :
        /\ d.password_reset_tokens[i].token = t
        /\ d.password_reset_tokens[i].used = FALSE

\* {"$elemMatch": {"token": t, "used": False, "expires_at": {"$gt": now}}}
ElemMatch(d, t) ==
    \E i \in 1..Len(d.password_reset_tokens) :
        /\ d.password_reset_tokens[i].token = t
        /\ d.password_reset_tokens[i].used = FALSE
        /\ d.password_reset_tokens[i].expires_at > now

\* Pull that leaves the redeemed token in place.
PullNothing(toks, t) == toks

\* {"$pull": {"password_reset_tokens": {"token": t}}}
Pull(toks, t) == SelectSeq(toks, LAMBDA x : x.token /= t)

\* The tokens a caller may present: every value issued so far, and 0, a
\* value that is never issued.
TokenInputs == 0..(nextTok - 1)

\* ResetFind whose update leaves the lockout fields alone.
ResetFindKeepLock(p, t, pw) ==
    /\ FirstFree(p)
    /\ ops > 0
    /\ ops' = ops - 1
    /\ LET d == FindOne({x \in users : ElemMatch(x, t)})
           l == [Idle EXCEPT !.op = "reset", !.tok = t, !.pw = pw]
       IN proc' = [proc EXCEPT ![p] =
            IF ~validate_password_strength(pw)
            THEN Return(l, Err("weak password"))
            ELSE IF ~Found(d)
            THEN [l EXCEPT !.pc = "reset_fail_audit",
                    !.ev = LogEntry("password_reset_failed", "unknown", FALSE)]
            ELSE [l EXCEPT !.pc = "reset_update", !.name = d.username,
                    !.uid = d._id,
                    !.upd = [hashed_password |-> hash_password(pw)]]]
    /\ UNCHANGED <<users, audit, now, nextId, nextTok, auditDown, uniqueIdx>>

\* ResetFind without the strength check.
ResetFindNoValidate(p, t, pw) ==
    /\ FirstFree(p)
    /\ ops > 0
    /\ ops' = ops - 1
    /\ LET d == FindOne({x \in users : ElemMatch(x, t)})
           l == [Idle EXCEPT !.op = "reset", !.tok = t, !.pw = pw]
       IN proc' = [proc EXCEPT ![p] =
            IF ~Found(d)
            THEN [l EXCEPT !.pc = "reset_fail_audit",
                    !.ev = LogEntry("password_reset_failed", "unknown", FALSE)]
            ELSE [l EXCEPT !.pc = "reset_update", !.name = d.username,
                    !.uid = d._id,
                    !.upd = [hashed_password |-> hash_password(pw),
                             failed_login_attempts |-> 0,
                             locked_until |-> None]]]
    /\ UNCHANGED <<users, audit, now, nextId, nextTok, auditDown, uniqueIdx>>

\* Lines 263-285: strength check, find_one by token, the new hash.
ResetFind(p, t, pw) ==
    /\ FirstFree(p)
    /\ ops > 0
    /\ ops' = ops - 1
    /\ LET d == FindOne({x \in users : ElemMatch(x, t)})
           l == [Idle EXCEPT !.op = "reset", !.tok = t, !.pw = pw]
       IN proc' = [proc EXCEPT ![p] =
            IF ~validate_password_strength(pw)
            THEN Return(l, Err("weak password"))
            ELSE IF ~Found(d)
            THEN [l EXCEPT !.pc = "reset_fail_audit",
                    !.ev = LogEntry("password_reset_failed", "unknown", FALSE)]
            ELSE [l EXCEPT !.pc = "reset_update", !.name = d.username,
                    !.uid = d._id,
                    !.upd = [hashed_password |-> hash_password(pw),
                             failed_login_attempts |-> 0,
                             locked_until |-> None]]]
    /\ UNCHANGED <<users, audit, now, nextId, nextTok, auditDown, uniqueIdx>>

\* ResetFailAudit that tells an expired token from an unknown one.
ResetFailAuditTelling(p) ==
    /\ proc[p].pc = "reset_fail_audit"
    /\ InsertAudit(p, Return(proc[p],
            IF \E d \in users : \E i \in 1..Len(d.password_reset_tokens) :
                  d.password_reset_tokens[i].token = proc[p].tok
            THEN Err("Reset token has expired")
            ELSE InvalidOrExpiredToken))
    /\ UNCHANGED <<users, now, nextId, nextTok, ops, auditDown, uniqueIdx>>

\* Lines 280-282
ResetFailAudit(p) ==
    /\ proc[p].pc = "reset_fail_audit"
    /\ InsertAudit(p, Return(proc[p], InvalidOrExpiredToken))
    /\ UNCHANGED <<users, now, nextId, nextTok, ops, auditDown, uniqueIdx>>

\* Lines 287-302: one update_one with $set and $pull, filtered by _id only.
ResetUpdate(p) ==
    /\ proc[p].pc = "reset_update"
    /\ users' = {IF d._id = proc[p].uid
                 THEN [SetFields(d, proc[p].upd) EXCEPT
                          !.password_reset_tokens = Pull(@, proc[p].tok)]
                 ELSE d : d \in users}
    /\ proc' = [proc EXCEPT ![p] =
                  [proc[p] EXCEPT !.pc = "reset_audit", !.upd = <<>>,
                      !.ev = LogEntry("password_reset_success", proc[p].name, TRUE)]]
    /\ UNCHANGED <<audit, now, nextId, nextTok, ops, auditDown, uniqueIdx>>

\* Lines 302-304
ResetAudit(p) ==
    /\ proc[p].pc = "reset_audit"
    /\ InsertAudit(p, Return(proc[p], Ok("Password reset successfully")))
    /\ UNCHANGED <<users, now, nextId, nextTok, ops, auditDown, uniqueIdx>>

ResetPassword(p) ==
    \/ \E t \in TokenInputs, pw \in Passwords : ResetFind(p, t, pw)
    \/ ResetFailAudit(p)
    \/ ResetUpdate(p)
    \/ ResetAudit(p)

---------------------------------------------------------------------------
\* update_user_profile; a field of UserProfileUpdate that is None is NoStr.
NoStr == ""

\* Lines 328-335
ProfileUpdate(fn, e) ==
    [f \in {"last_activity"} \cup (IF fn /= NoStr THEN {"full_name"} ELSE {})
                             \cup (IF e /= NoStr THEN {"email"} ELSE {}) |->
        IF f = "full_name" THEN fn ELSE IF f = "email" THEN e ELSE now]

\* Lines 317-335: find_one by username; a changed email needs a second read.
ProfileFind(p, u, fn, e) ==
    /\ FirstFree(p)
    /\ ops > 0
    /\ ops' = ops - 1
    /\ LET d == FindByUsername(u)
           l == [Idle EXCEPT !.op = "profile", !.name = u]
       IN proc' = [proc EXCEPT ![p] =
            IF ~Found(d)
            THEN Return(l, Err("User not found"))
            ELSE IF e /= NoStr /\ e /= d.email
            THEN [l EXCEPT !.pc = "profile_check_email", !.uid = d._id,
                    !.doc = [full_name |-> fn, email |-> e]]
            ELSE [l EXCEPT !.pc = "profile_update", !.uid = d._id,
                    !.upd = ProfileUpdate(fn, e)]]
    /\ UNCHANGED <<users, audit, now, nextId, nextTok, auditDown, uniqueIdx>>

\* ProfileCheckEmail without the look-up of the new email.
ProfileCheckEmailNoLookup(p) ==
    /\ proc[p].pc = "profile_check_email"
    /\ proc' = [proc EXCEPT ![p] =
            [proc[p] EXCEPT !.pc = "profile_update", !.doc = <<>>,
                !.upd = ProfileUpdate(proc[p].doc.full_name,
                                      proc[p].doc.email)]]
    /\ UNCHANGED <<users, audit, now, nextId, nextTok, ops, auditDown, uniqueIdx>>

\* Lines 324-335: the advisory find_one by email.
ProfileCheckEmail(p) ==
    /\ proc[p].pc = "profile_check_email"
    /\ proc' = [proc EXCEPT ![p] =
            IF Found(FindByEmail(proc[p].doc.email))
            THEN Return(proc[p], Err("Email already in use"))
            ELSE [proc[p] EXCEPT !.pc = "profile_update", !.doc = <<>>,
                    !.upd = ProfileUpdate(proc[p].doc.full_name,
                                          proc[p].doc.email)]]
    /\ UNCHANGED <<users, audit, now, nextId, nextTok, ops, auditDown, uniqueIdx>>

\* Lines 337-344
ProfileUpdateOne(p) ==
    /\ proc[p].pc = "profile_update"
    /\ LET after == UpdateOneSet(proc[p].uid, proc[p].upd)
       IN IF Refused(after)
          THEN /\ proc' = [proc EXCEPT ![p] = Raise(proc[p], DuplicateKeyError)]
               /\ UNCHANGED users
          ELSE /\ users' = after
               /\ proc' = [proc EXCEPT ![p] =
                    [proc[p] EXCEPT !.pc = "profile_audit", !.upd = <<>>,
                        !.ev = LogEntry("profile_updated", proc[p].name, TRUE)]]
    /\ UNCHANGED <<audit, now, nextId, nextTok, ops, auditDown, uniqueIdx>>

\* Lines 343-344
ProfileAudit(p) ==
    /\ proc[p].pc = "profile_audit"
    /\ InsertAudit(p, [proc[p] EXCEPT !.pc = "profile_refetch", !.ev = <<>>])
    /\ UNCHANGED <<users, now, nextId, nextTok, ops, auditDown, uniqueIdx>>

\* Lines 346-354: find_one by _id; None["_id"] raises when the document
\* was deleted in between.
ProfileRefetch(p) ==
    /\ proc[p].pc = "profile_refetch"
    /\ proc' = [proc EXCEPT ![p] =
            IF \E d \in users : d._id = proc[p].uid
            THEN Return(proc[p], Ok("Profile updated successfully"))
            ELSE Raise(proc[p], "TypeError")]
    /\ UNCHANGED <<users, audit, now, nextId, nextTok, ops, auditDown, uniqueIdx>>

UpdateUserProfile(p) ==
    \/ \E u \in Usernames, fn \in FullNames \cup {NoStr}, e \in Emails \cup {NoStr} :
          ProfileFind(p, u, fn, e)
    \/ ProfileCheckEmail(p)
    \/ ProfileUpdateOne(p)
    \/ ProfileAudit(p)
    \/ ProfileRefetch(p)

---------------------------------------------------------------------------
\* delete_account

\* DeleteFind without the password verification.
DeleteFindNoVerify(p, u, pw) ==
    /\ FirstFree(p)
    /\ ops > 0
    /\ ops' = ops - 1
    /\ LET d == FindByUsername(u)
           l == [Idle EXCEPT !.op = "delete", !.name = u, !.pw = pw]
       IN proc' = [proc EXCEPT ![p] =
            IF ~Found(d)
            THEN Return(l, Err("User not found"))
            ELSE [l EXCEPT !.pc = "delete_one", !.uid = d._id]]
    /\ UNCHANGED <<users, audit, now, nextId, nextTok, auditDown, uniqueIdx>>

\* DeleteFind that applies the lockout: a locked account is refused.
DeleteFindLockAware(p, u, pw) ==
    /\ FirstFree(p)
    /\ ops > 0
    /\ ops' = ops - 1
    /\ LET d == FindByUsername(u)
           l == [Idle EXCEPT !.op = "delete", !.name = u, !.pw = pw]
       IN proc' = [proc EXCEPT ![p] =
            IF ~Found(d)
            THEN Return(l, Err("User not found"))
            ELSE IF d.locked_until /= None /\ d.locked_until > now
            THEN Return(l, ErrVal(LockedMsg, d.locked_until - now))
            ELSE IF ~verify_password(pw, d.hashed_password)
            THEN [l EXCEPT !.pc = "delete_fail_audit", !.uid = d._id,
                    !.ev = LogEntry("account_deletion_failed", u, FALSE)]
            ELSE [l EXCEPT !.pc = "delete_one", !.uid = d._id]]
    /\ UNCHANGED <<users, audit, now, nextId, nextTok, auditDown, uniqueIdx>>

\* Lines 367-376
DeleteFind(p, u, pw) ==
    /\ FirstFree(p)
    /\ ops > 0
    /\ ops' = ops - 1
    /\ LET d == FindByUsername(u)
           l == [Idle EXCEPT !.op = "delete", !.name = u, !.pw = pw]
       IN proc' = [proc EXCEPT ![p] =
            IF ~Found(d)
            THEN Return(l, Err("User not found"))
            ELSE IF ~verify_password(pw, d.hashed_password)
            THEN [l EXCEPT !.pc = "delete_fail_audit", !.uid = d._id,
                    !.ev = LogEntry("account_deletion_failed", u, FALSE)]
            ELSE [l EXCEPT !.pc = "delete_one", !.uid = d._id]]
    /\ UNCHANGED <<users, audit, now, nextId, nextTok, auditDown, uniqueIdx>>

\* Lines 374-376
DeleteFailAudit(p) ==
    /\ proc[p].pc = "delete_fail_audit"
    /\ InsertAudit(p, Return(proc[p], Err("Incorrect password")))
    /\ UNCHANGED <<users, now, nextId, nextTok, ops, auditDown, uniqueIdx>>

\* DeleteOne that also deletes the account's audit entries.
DeleteOneCascade(p) ==
    /\ proc[p].pc = "delete_one"
    /\ users' = {d \in users : d._id /= proc[p].uid}
    /\ audit' = SelectSeq(audit, LAMBDA x : x.username /= proc[p].name)
    /\ proc' = [proc EXCEPT ![p] =
                  [proc[p] EXCEPT !.pc = "delete_audit",
                      !.ev = LogEntry("account_deleted", proc[p].name, TRUE)]]
    /\ UNCHANGED <<now, nextId, nextTok, ops, auditDown, uniqueIdx>>

\* Lines 378-381
DeleteOne(p) ==
    /\ proc[p].pc = "delete_one"
    /\ users' = {d \in users : d._id /= proc[p].uid}
    /\ proc' = [proc EXCEPT ![p] =
                  [proc[p] EXCEPT !.pc = "delete_audit",
                      !.ev = LogEntry("account_deleted", proc[p].name, TRUE)]]
    /\ UNCHANGED <<audit, now, nextId, nextTok, ops, auditDown, uniqueIdx>>

\* Lines 381-383
DeleteAudit(p) ==
    /\ proc[p].pc = "delete_audit"
    /\ InsertAudit(p, Return(proc[p], Ok("Account deleted successfully")))
    /\ UNCHANGED <<users, now, nextId, nextTok, ops, auditDown, uniqueIdx>>

DeleteAccount(p) ==
    \/ \E u \in Usernames, pw \in Passwords : DeleteFind(p, u, pw)
    \/ DeleteFailAudit(p)
    \/ DeleteOne(p)
    \/ DeleteAudit(p)

---------------------------------------------------------------------------
\* set_user_role

RoleInputs == Roles \cup {"root"}

\* RoleFind without the check of the role value.
RoleFindAnyRole(p, u, role) ==
    /\ FirstFree(p)
    /\ ops > 0
    /\ ops' = ops - 1
    /\ LET d == FindByUsername(u)
           l == [Idle EXCEPT !.op = "role", !.name = u]
       IN proc' = [proc EXCEPT ![p] =
            IF ~Found(d)
            THEN Return(l, Err("User not found"))
            ELSE [l EXCEPT !.pc = "role_update", !.uid = d._id,
                    !.upd = [role |-> role, last_activity |-> now]]]
    /\ UNCHANGED <<users, audit, now, nextId, nextTok, auditDown, uniqueIdx>>

\* Lines 396-402
RoleFind(p, u, role) ==
    /\ FirstFree(p)
    /\ ops > 0
    /\ ops' = ops - 1
    /\ LET d == FindByUsername(u)
           l == [Idle EXCEPT !.op = "role", !.name = u]
       IN proc' = [proc EXCEPT ![p] =
            IF role \notin Roles
            THEN Return(l, Err("Invalid role. Must be 'user' or 'admin'"))
            ELSE IF ~Found(d)
            THEN Return(l, Err("User not found"))
            ELSE [l EXCEPT !.pc = "role_update", !.uid = d._id,
                    !.upd = [role |-> role, last_activity |-> now]]]
    /\ UNCHANGED <<users, audit, now, nextId, nextTok, auditDown, uniqueIdx>>

\* Lines 404-410
RoleUpdate(p) ==
    /\ proc[p].pc = "role_update"
    /\ users' = UpdateOneSet(proc[p].uid, proc[p].upd)
    /\ proc' = [proc EXCEPT ![p] =
                  [proc[p] EXCEPT !.pc = "role_audit", !.upd = <<>>,
                      !.ev = LogEntry("role_changed", proc[p].name, TRUE)]]
    /\ UNCHANGED <<audit, now, nextId, nextTok, ops, auditDown, uniqueIdx>>

\* Lines 409-412
RoleAudit(p) ==
    /\ proc[p].pc = "role_audit"
    /\ InsertAudit(p, Return(proc[p], Ok("User role set")))
    /\ UNCHANGED <<users, now, nextId, nextTok, ops, auditDown, uniqueIdx>>

SetUserRole(p) ==
    \/ \E u \in Usernames, role \in RoleInputs : RoleFind(p, u, role)
    \/ RoleUpdate(p)
    \/ RoleAudit(p)

---------------------------------------------------------------------------
\* get_user_audit_log / AuditLogger.get_user_events

\* The limits a caller may pass (routes.get_audit_log takes any int).
LimitInputs == {0 - 1, 0, 1, 2, 3}

\* The _id of an audit document is its position in insertion order.
Matching(u) == {i \in 1..Len(audit) : audit[i].username = u}

\* cursor.limit(n) on n documents: 0 means no limit, a negative n asks for
\* one batch of at most |n| documents.
Limited(limit, n) ==
    IF limit = 0 THEN n
    ELSE LET a == IF limit < 0 THEN 0 - limit ELSE limit
         IN IF a <= n THEN a ELSE n

\* find({"username": u}).sort("timestamp", -1).limit(limit): the results the
\* store can return, as sequences of _ids.  The sort key is the timestamp
\* alone, so documents with equal timestamps come in any order, and any of
\* them may be the ones the limit cuts off.
get_user_events(u, limit) ==
    LET M == Matching(u)
        k == Limited(limit, Cardinality(M))
    IN {r \in [1..k -> M] :
          /\ \A i \in 1..k : \A j \in 1..k :
                i < j => /\ r[i] /= r[j]
                         /\ audit[r[i]].timestamp >= audit[r[j]].timestamp
          /\ \A m \in M :
                (\A i \in 1..k : r[i] /= m)
                => \A i \in 1..k : audit[m].timestamp <= audit[r[i]].timestamp}

\* Lines 425-430: one query; the result carries the username and the events.
GetUserAuditLog(p, u, limit) ==
    /\ FirstFree(p)
    /\ ops > 0
    /\ ops' = ops - 1
    /\ \E r \in get_user_events(u, limit) :
          proc' = [proc EXCEPT ![p] =
                     [Return([Idle EXCEPT !.op = "auditlog"], Ok("events"))
                        EXCEPT !.doc = [username |-> u, events |-> r]]]
    /\ UNCHANGED <<users, audit, now, nextId, nextTok, auditDown, uniqueIdx>>

---------------------------------------------------------------------------
\* The clock.
Tick ==
    /\ \E d \in TickSteps : now + d <= MaxTime /\ now' = now + d
    /\ UNCHANGED <<users, audit, proc, nextId, nextTok, ops, auditDown, uniqueIdx>>

\* The audit_logs collection becomes unavailable, or available again.
AuditOutage ==
    /\ auditDown' = ~auditDown
    /\ UNCHANGED <<users, audit, now, proc, nextId, nextTok, ops, uniqueIdx>>

---------------------------------------------------------------------------
\* Initial states.

AllIdle == [p \in Procs |-> Idle]

\* The state after construction: empty collections, no index created.
Init ==
    /\ users = {}
    /\ audit = <<>>
    /\ now = 0
    /\ proc = AllIdle
    /\ nextId = 1
    /\ nextTok = 1
    /\ ops = MaxOps
    /\ auditDown = FALSE
    /\ uniqueIdx = FALSE

\* The document and the audit entry a register(u, e, fn, pw) at time 0 leaves.
Registered(id, u, e, fn, pw) == WithId(UserDict(u, e, fn, pw, 0), id)

RegistrationEntry(u) ==
    [event_type |-> "user_registration", username |-> u, timestamp |-> 0,
     success |-> TRUE]

\* k wrong-password logins on alice's fresh account, one after the other at
\* time 0: the audit entries they leave and the document they leave.
FailureEntries(k) ==
    [i \in 1..k |->
        [event_type |-> IF i >= MAX_LOGIN_ATTEMPTS THEN "account_locked"
                        ELSE "failed_login",
         username |-> "alice", timestamp |-> 0, success |-> FALSE]]

AfterFailures(d, k) ==
    IF k >= MAX_LOGIN_ATTEMPTS
    THEN [d EXCEPT !.failed_login_attempts = k,
                   !.locked_until = LOCKOUT_DURATION_MINUTES]
    ELSE [d EXCEPT !.failed_login_attempts = k]

\* n reset requests for alice's email at time 0, after those logins.
RequestEntries(n) ==
    [i \in 1..n |->
        [event_type |-> "password_reset_requested", username |-> "alice",
         timestamp |-> 0, success |-> TRUE]]

AfterRequests(d, n) ==
    [d EXCEPT !.password_reset_tokens =
        [i \in 1..n |->
            [token |-> i, created_at |-> 0,
             expires_at |-> PASSWORD_RESET_TOKEN_EXPIRY_MINUTES,
             used |-> FALSE]]]

Alice == Registered(1, "alice", "a@x.io", "Ann", "Passw0rd!A")

\* alice has registered with password Passw0rd!A at time 0, has then failed
\* k logins and requested n password resets, all at time 0.
AliceAfter(k, n) ==
    /\ users = {AfterRequests(AfterFailures(Alice, k), n)}
    /\ audit = <<RegistrationEntry("alice")>> \o FailureEntries(k)
                   \o RequestEntries(n)
    /\ now = 0
    /\ proc = AllIdle
    /\ nextId = 2
    /\ nextTok = n + 1
    /\ ops = MaxOps
    /\ auditDown = FALSE
    /\ uniqueIdx = FALSE

\* Any number of consecutive failures up to the threshold (the account is
\* then locked until minute 15), no reset requested.
InitAlice == \E k \in 0..MAX_LOGIN_ATTEMPTS : AliceAfter(k, 0)

\* A fresh account with up to two reset tokens outstanding.
InitReset == \E n \in 0..2 : AliceAfter(0, n)

---------------------------------------------------------------------------
\* Concurrent logins on alice's account and on an unregistered name, with
\* the right and a wrong password, and the clock.
LoginNext ==
    \/ \E p \in Procs : \E u \in Usernames, pw \in StrongPasswords :
          LoginFind(p, u, pw)
    \/ \E p \in Procs : LoginNoUserAudit(p)
    \/ \E p \in Procs : LoginLockedAudit(p)
    \/ \E p \in Procs : LoginUnlock(p)
    \/ \E p \in Procs : LoginFailAudit(p)
    \/ \E p \in Procs : LoginFailUpdate(p)
    \/ \E p \in Procs : LoginSuccessUpdate(p)
    \/ \E p \in Procs : LoginSuccessAudit(p)
    \/ Tick

LoginSpec == InitAlice /\ [][LoginNext]_vars

\* Concurrent reset requests for alice's email and for an unregistered one,
\* and redemptions of every token issued so far (and of one never issued),
\* with the clock.
ResetNext ==
    \/ \E p \in Procs : \E e \in Emails : ReqResetFind(p, e)
    \/ \E p \in Procs : ReqResetNoUserAudit(p)
    \/ \E p \in Procs : ReqResetPush(p)
    \/ \E p \in Procs : ReqResetAudit(p)
    \/ \E p \in Procs : \E t \in TokenInputs, pw \in Passwords :
          ResetFind(p, t, pw)
    \/ \E p \in Procs : ResetFailAudit(p)
    \/ \E p \in Procs : ResetUpdate(p)
    \/ \E p \in Procs : ResetAudit(p)
    \/ Tick

ResetSpec == InitReset /\ [][ResetNext]_vars

\* A locked account with one reset token outstanding: redemptions of that
\* token (and of one never issued) and logins, with the clock.
InitLockedWithToken == AliceAfter(MAX_LOGIN_ATTEMPTS, 1)

ResetLoginNext ==
    \/ \E p \in Procs : \E t \in TokenInputs, pw \in Passwords :
          ResetFind(p, t, pw)
    \/ \E p \in Procs : ResetFailAudit(p)
    \/ \E p \in Procs : ResetUpdate(p)
    \/ \E p \in Procs : ResetAudit(p)
    \/ \E p \in Procs : \E pw \in StrongPasswords : LoginFind(p, "alice", pw)
    \/ \E p \in Procs : LoginLockedAudit(p)
    \/ \E p \in Procs : LoginUnlock(p)
    \/ \E p \in Procs : LoginFailAudit(p)
    \/ \E p \in Procs : LoginFailUpdate(p)
    \/ \E p \in Procs : LoginSuccessUpdate(p)
    \/ \E p \in Procs : LoginSuccessAudit(p)
    \/ Tick

ResetLoginSpec == InitLockedWithToken /\ [][ResetLoginNext]_vars

\* Registrations and profile updates on an empty store or beside alice's
\* account, and the creation of the unique indexes by an operator.
InitRegister == Init \/ AliceAfter(0, 0)

RegisterNext ==
    \/ \E p \in Procs :
          \E u \in Usernames, e \in Emails, fn \in FullNames, pw \in Passwords :
             CreateFind(p, u, e, fn, pw)
    \/ \E p \in Procs : CreateInsert(p)
    \/ \E p \in Procs : CreateAudit(p)
    \/ \E p \in Procs :
          \E u \in Usernames, fn \in FullNames \cup {NoStr}, e \in Emails \cup {NoStr} :
             ProfileFind(p, u, fn, e)
    \/ \E p \in Procs : ProfileCheckEmail(p)
    \/ \E p \in Procs : ProfileUpdateOne(p)
    \/ \E p \in Procs : ProfileAudit(p)
    \/ \E p \in Procs : ProfileRefetch(p)
    \/ EnsureIndexes

RegisterSpec == InitRegister /\ [][RegisterNext]_vars

\* Registrations alone, on an empty collection or beside alice's account.
CreateNext ==
    \/ \E p \in Procs :
          \E u \in Usernames, e \in Emails, pw \in Passwords :
             CreateFind(p, u, e, "Bea", pw)
    \/ \E p \in Procs : CreateInsert(p)
    \/ \E p \in Procs : CreateAudit(p)

CreateSpec == InitRegister /\ [][CreateNext]_vars

\* Every operation that writes an audit entry, on alice's account one
\* failure short of the lock or locked, with one reset token outstanding,
\* while the audit_logs collection may become unavailable at any time.
InitFault == \E k \in {MAX_LOGIN_ATTEMPTS - 1, MAX_LOGIN_ATTEMPTS} : AliceAfter(k, 1)

FaultNext ==
    \/ \E p \in Procs : \E u \in Usernames, pw \in StrongPasswords :
          LoginFind(p, u, pw)
    \/ \E p \in Procs : LoginNoUserAudit(p)
    \/ \E p \in Procs : LoginLockedAudit(p)
    \/ \E p \in Procs : LoginUnlock(p)
    \/ \E p \in Procs : LoginFailAudit(p)
    \/ \E p \in Procs : LoginFailUpdate(p)
    \/ \E p \in Procs : LoginSuccessUpdate(p)
    \/ \E p \in Procs : LoginSuccessAudit(p)
    \/ \E p \in Procs : CreateFind(p, "bob", "b@x.io", "Bea", "Passw0rd!B")
    \/ \E p \in Procs : CreateInsert(p)
    \/ \E p \in Procs : CreateAudit(p)
    \/ \E p \in Procs : \E e \in Emails : ReqResetFind(p, e)
    \/ \E p \in Procs : ReqResetNoUserAudit(p)
    \/ \E p \in Procs : ReqResetPush(p)
    \/ \E p \in Procs : ReqResetAudit(p)
    \/ \E p \in Procs : \E t \in TokenInputs : ResetFind(p, t, "Passw0rd!B")
    \/ \E p \in Procs : ResetFailAudit(p)
    \/ \E p \in Procs : ResetUpdate(p)
    \/ \E p \in Procs : ResetAudit(p)
    \/ \E p \in Procs : \E e \in {"b@x.io", NoStr} : ProfileFind(p, "alice", "Bea", e)
    \/ \E p \in Procs : ProfileCheckEmail(p)
    \/ \E p \in Procs : ProfileUpdateOne(p)
    \/ \E p \in Procs : ProfileAudit(p)
    \/ \E p \in Procs : ProfileRefetch(p)
    \/ \E p \in Procs : \E pw \in StrongPasswords : DeleteFind(p, "alice", pw)
    \/ \E p \in Procs : DeleteFailAudit(p)
    \/ \E p \in Procs : DeleteOne(p)
    \/ \E p \in Procs : DeleteAudit(p)
    \/ \E p \in Procs : RoleFind(p, "alice", "admin")
    \/ \E p \in Procs : RoleUpdate(p)
    \/ \E p \in Procs : RoleAudit(p)
    \/ Tick
    \/ AuditOutage

FaultSpec == InitFault /\ [][FaultNext]_vars

---------------------------------------------------------------------------
\* One caller that logs in to alice's account again and again, each login
\* after the previous one has returned, with the right or a wrong password,
\* and the clock.  The account starts with 0..5 consecutive failures.
MaxSeqOps == 5

InitSeq ==
    /\ \E k \in 0..MAX_LOGIN_ATTEMPTS :
          /\ users = {AfterFailures(Alice, k)}
          /\ audit = <<RegistrationEntry("alice")>> \o FailureEntries(k)
    /\ now = 0
    /\ proc = AllIdle
    /\ nextId = 2
    /\ nextTok = 1
    /\ ops = MaxSeqOps
    /\ auditDown = FALSE
    /\ uniqueIdx = FALSE

\* No request is in flight.
Quiescent == \A q \in Procs : Free(q)

SeqNext ==
    \/ \E p \in Procs : \E pw \in StrongPasswords :
          Quiescent /\ LoginFind(p, "alice", pw)
    \/ \E p \in Procs : LoginLockedAudit(p)
    \/ \E p \in Procs : LoginUnlock(p)
    \/ \E p \in Procs : LoginFailAudit(p)
    \/ \E p \in Procs : LoginFailUpdate(p)
    \/ \E p \in Procs : LoginSuccessUpdate(p)
    \/ \E p \in Procs : LoginSuccessAudit(p)
    \/ Tick

SeqSpec == InitSeq /\ [][SeqNext]_vars

---------------------------------------------------------------------------
\* Deletions of alice's account (and of an unregistered name) with the right
\* and a wrong password, beside reset requests, redemptions of every token
\* issued so far and logins.  alice starts with one or two reset tokens.
InitDelete == \E n \in 1..2 : AliceAfter(0, n)

DeleteNext ==
    \/ \E p \in Procs : \E u \in Usernames, pw \in StrongPasswords :
          DeleteFind(p, u, pw)
    \/ \E p \in Procs : DeleteFailAudit(p)
    \/ \E p \in Procs : DeleteOne(p)
    \/ \E p \in Procs : DeleteAudit(p)
    \/ \E p \in Procs : \E t \in TokenInputs, pw \in StrongPasswords :
          ResetFind(p, t, pw)
    \/ \E p \in Procs : ResetFailAudit(p)
    \/ \E p \in Procs : ResetUpdate(p)
    \/ \E p \in Procs : ResetAudit(p)
    \/ \E p \in Procs : ReqResetFind(p, "a@x.io")
    \/ \E p \in Procs : ReqResetNoUserAudit(p)
    \/ \E p \in Procs : ReqResetPush(p)
    \/ \E p \in Procs : ReqResetAudit(p)
    \/ \E p \in Procs : \E pw \in StrongPasswords : LoginFind(p, "alice", pw)
    \/ \E p \in Procs : LoginNoUserAudit(p)
    \/ \E p \in Procs : LoginFailAudit(p)
    \/ \E p \in Procs : LoginFailUpdate(p)
    \/ \E p \in Procs : LoginSuccessUpdate(p)
    \/ \E p \in Procs : LoginSuccessAudit(p)

DeleteSpec == InitDelete /\ [][DeleteNext]_vars

---------------------------------------------------------------------------
\* Every operation of the service once or concurrently with another, on
\* alice's account with one reset token outstanding: login, register,
\* reset request, redemption, profile update, deletion and role change.
InitOps == AliceAfter(0, 1)

OpsNext ==
    \/ \E p \in Procs : \E pw \in StrongPasswords : LoginFind(p, "alice", pw)
    \/ \E p \in Procs : LoginNoUserAudit(p)
    \/ \E p \in Procs : LoginFailAudit(p)
    \/ \E p \in Procs : LoginFailUpdate(p)
    \/ \E p \in Procs : LoginSuccessUpdate(p)
    \/ \E p \in Procs : LoginSuccessAudit(p)
    \/ \E p \in Procs : CreateFind(p, "bob", "b@x.io", "Bea", "Passw0rd!B")
    \/ \E p \in Procs : CreateInsert(p)
    \/ \E p \in Procs : CreateAudit(p)
    \/ \E p \in Procs : ReqResetFind(p, "a@x.io")
    \/ \E p \in Procs : ReqResetNoUserAudit(p)
    \/ \E p \in Procs : ReqResetPush(p)
    \/ \E p \in Procs : ReqResetAudit(p)
    \/ \E p \in Procs : \E t \in {0, 1} : ResetFind(p, t, "Passw0rd!B")
    \/ \E p \in Procs : ResetFailAudit(p)
    \/ \E p \in Procs : ResetUpdate(p)
    \/ \E p \in Procs : ResetAudit(p)
    \/ \E p \in Procs : ProfileFind(p, "alice", "Bea", NoStr)
    \/ \E p \in Procs : ProfileUpdateOne(p)
    \/ \E p \in Procs : ProfileAudit(p)
    \/ \E p \in Procs : ProfileRefetch(p)
    \/ \E p \in Procs : DeleteFind(p, "alice", "Passw0rd!A")
    \/ \E p \in Procs : DeleteFailAudit(p)
    \/ \E p \in Procs : DeleteOne(p)
    \/ \E p \in Procs : DeleteAudit(p)
    \/ \E p \in Procs : RoleFind(p, "alice", "admin")
    \/ \E p \in Procs : RoleUpdate(p)
    \/ \E p \in Procs : RoleAudit(p)

OpsSpec == InitOps /\ [][OpsNext]_vars

---------------------------------------------------------------------------
\* Queries of the audit log of alice and of an unregistered name, beside
\* logins under both names and the clock.  alice starts with up to two
\* failed logins, logged in the same minute as her registration.
InitAudit == \E k \in 0..2 : AliceAfter(k, 0)

AuditNext ==
    \/ \E p \in Procs : \E u \in Usernames, limit \in LimitInputs :
          GetUserAuditLog(p, u, limit)
    \/ \E p \in Procs : \E u \in Usernames, pw \in StrongPasswords :
          LoginFind(p, u, pw)
    \/ \E p \in Procs : LoginNoUserAudit(p)
    \/ \E p \in Procs : LoginFailAudit(p)
    \/ \E p \in Procs : LoginFailUpdate(p)
    \/ \E p \in Procs : LoginSuccessUpdate(p)
    \/ \E p \in Procs : LoginSuccessAudit(p)
    \/ Tick

AuditSpec == InitAudit /\ [][AuditNext]_vars

---------------------------------------------------------------------------
\* Role changes for alice and for an unregistered name, with the two valid
\* roles and an invalid one, beside bob's registration, the deletion of
\* alice's account and the clock.
RoleNext ==
    \/ \E p \in Procs : \E u \in Usernames, role \in RoleInputs :
          RoleFind(p, u, role)
    \/ \E p \in Procs : RoleUpdate(p)
    \/ \E p \in Procs : RoleAudit(p)
    \/ \E p \in Procs : CreateFind(p, "bob", "b@x.io", "Bea", "Passw0rd!B")
    \/ \E p \in Procs : CreateInsert(p)
    \/ \E p \in Procs : CreateAudit(p)
    \/ \E p \in Procs : DeleteFind(p, "alice", "Passw0rd!A")
    \/ \E p \in Procs : DeleteOne(p)
    \/ \E p \in Procs : DeleteAudit(p)
    \/ Tick

RoleSpec == InitOps /\ [][RoleNext]_vars

---------------------------------------------------------------------------
\* Profile updates for alice and bob with every choice of fields; alice is
\* registered, and bob is registered after her or not at all.
InitProfile ==
    \/ AliceAfter(0, 0)
    \/ /\ users = {Alice, Registered(2, "bob", "b@x.io", "Bea", "Passw0rd!B")}
       /\ audit = <<RegistrationEntry("alice"), RegistrationEntry("bob")>>
       /\ now = 0
       /\ proc = AllIdle
       /\ nextId = 3
       /\ nextTok = 1
       /\ ops = MaxOps
       /\ auditDown = FALSE
       /\ uniqueIdx = FALSE

ProfileNext ==
    \/ \E p \in Procs :
          \E u \in Usernames, fn \in {"Bea", NoStr}, e \in Emails \cup {NoStr} :
             ProfileFind(p, u, fn, e)
    \/ \E p \in Procs : ProfileCheckEmail(p)
    \/ \E p \in Procs : ProfileUpdateOne(p)
    \/ \E p \in Procs : ProfileAudit(p)
    \/ \E p \in Procs : ProfileRefetch(p)

ProfileSpec == InitProfile /\ [][ProfileNext]_vars

---------------------------------------------------------------------------
\* Two accounts.  alice is fresh with reset token 1 outstanding; bob
\* registered after her and has since failed k logins (4: one short of the
\* lock, 5: locked) and requested m resets (his token is 2).  Logins under
\* either name, redemptions of every token, and every other operation but
\* registration on alice's account.
Bob == Registered(2, "bob", "b@x.io", "Bea", "Passw0rd!B")

BobAfter(k, m) ==
    [AfterFailures(Bob, k) EXCEPT !.password_reset_tokens =
        [i \in 1..m |->
            [token |-> 2, created_at |-> 0,
             expires_at |-> PASSWORD_RESET_TOKEN_EXPIRY_MINUTES,
             used |-> FALSE]]]

InitTwo ==
    /\ \E k \in {MAX_LOGIN_ATTEMPTS - 1, MAX_LOGIN_ATTEMPTS} : \E m \in 0..1 :
          /\ users = {AfterRequests(Alice, 1), BobAfter(k, m)}
          /\ audit = <<RegistrationEntry("alice"), RegistrationEntry("bob")>>
                        \o RequestEntries(1)
                        \o [i \in 1..k |-> [FailureEntries(k)[i] EXCEPT !.username = "bob"]]
                        \o [i \in 1..m |-> [RequestEntries(m)[i] EXCEPT !.username = "bob"]]
          /\ nextTok = 2 + m
    /\ now = 0
    /\ proc = AllIdle
    /\ nextId = 3
    /\ ops = MaxOps
    /\ auditDown = FALSE
    /\ uniqueIdx = FALSE

TwoNext ==
    \/ \E p \in Procs : \E u \in Usernames, pw \in StrongPasswords :
          LoginFind(p, u, pw)
    \/ \E p \in Procs : LoginNoUserAudit(p)
    \/ \E p \in Procs : LoginLockedAudit(p)
    \/ \E p \in Procs : LoginFailAudit(p)
    \/ \E p \in Procs : LoginFailUpdate(p)
    \/ \E p \in Procs : LoginSuccessUpdate(p)
    \/ \E p \in Procs : LoginSuccessAudit(p)
    \/ \E p \in Procs : ReqResetFind(p, "a@x.io")
    \/ \E p \in Procs : ReqResetNoUserAudit(p)
    \/ \E p \in Procs : ReqResetPush(p)
    \/ \E p \in Procs : ReqResetAudit(p)
    \/ \E p \in Procs : \E t \in TokenInputs : ResetFind(p, t, "Passw0rd!B")
    \/ \E p \in Procs : ResetFailAudit(p)
    \/ \E p \in Procs : ResetUpdate(p)
    \/ \E p \in Procs : ResetAudit(p)
    \/ \E p \in Procs : ProfileFind(p, "alice", "Bea", NoStr)
    \/ \E p \in Procs : ProfileUpdateOne(p)
    \/ \E p \in Procs : ProfileAudit(p)
    \/ \E p \in Procs : ProfileRefetch(p)
    \/ \E p \in Procs : RoleFind(p, "alice", "admin")
    \/ \E p \in Procs : RoleUpdate(p)
    \/ \E p \in Procs : RoleAudit(p)
    \/ \E p \in Procs : DeleteFind(p, "alice", "Passw0rd!A")
    \/ \E p \in Procs : DeleteFailAudit(p)
    \/ \E p \in Procs : DeleteOne(p)
    \/ \E p \in Procs : DeleteAudit(p)

TwoSpec == InitTwo /\ [][TwoNext]_vars

---------------------------------------------------------------------------
\* Logins on an account whose is_active is False.  No handler writes the
\* field (create_user stores True); the document is one that was
\* deactivated in the store, after 0, 3 or 5 failed logins.
InitInactive ==
    /\ \E k \in {0, 3, MAX_LOGIN_ATTEMPTS} :
          /\ users = {[AfterFailures(Alice, k) EXCEPT !.is_active = FALSE]}
          /\ audit = <<RegistrationEntry("alice")>> \o FailureEntries(k)
    /\ now = 0
    /\ proc = AllIdle
    /\ nextId = 2
    /\ nextTok = 1
    /\ ops = MaxOps
    /\ auditDown = FALSE
    /\ uniqueIdx = FALSE

InactiveNext ==
    \/ \E p \in Procs : \E pw \in StrongPasswords : LoginFind(p, "alice", pw)
    \/ \E p \in Procs : LoginLockedAudit(p)
    \/ \E p \in Procs : LoginUnlock(p)
    \/ \E p \in Procs : LoginFailAudit(p)
    \/ \E p \in Procs : LoginFailUpdate(p)
    \/ \E p \in Procs : LoginInactiveAudit(p)
    \/ Tick

InactiveSpec == InitInactive /\ [][InactiveNext]_vars

---------------------------------------------------------------------------
\* Every path of authenticate_user: logins as alice, active with 0..5
\* failures or inactive with 0, 3 or 5, and as the unregistered bob, with
\* the right and a wrong password, and the clock.
InitPaths == InitAlice \/ InitInactive

PathsNext ==
    \/ \E p \in Procs : \E u \in Usernames, pw \in StrongPasswords :
          LoginFind(p, u, pw)
    \/ \E p \in Procs : LoginNoUserAudit(p)
    \/ \E p \in Procs : LoginLockedAudit(p)
    \/ \E p \in Procs : LoginUnlock(p)
    \/ \E p \in Procs : LoginFailAudit(p)
    \/ \E p \in Procs : LoginFailUpdate(p)
    \/ \E p \in Procs : LoginInactiveAudit(p)
    \/ \E p \in Procs : LoginSuccessUpdate(p)
    \/ \E p \in Procs : LoginSuccessAudit(p)
    \/ Tick

PathsSpec == InitPaths /\ [][PathsNext]_vars

---------------------------------------------------------------------------
\* Logins, redemptions and lazy unlocks interleaved on alice's account,
\* which starts within two failures of the lock or locked, with one reset
\* token outstanding.
InitPolicy == \E k \in (MAX_LOGIN_ATTEMPTS - 2)..MAX_LOGIN_ATTEMPTS : AliceAfter(k, 1)

PolicySpec == InitPolicy /\ [][ResetLoginNext]_vars

---------------------------------------------------------------------------
\* Deletions of alice's account with the right and a wrong password, next
\* to logins, on an account that is two failures short of the lock or
\* locked until minute 15.
InitLockedDelete ==
    \E k \in {MAX_LOGIN_ATTEMPTS - 2, MAX_LOGIN_ATTEMPTS} : AliceAfter(k, 0)

LockedDeleteNext ==
    \/ \E p \in Procs : \E pw \in StrongPasswords : DeleteFind(p, "alice", pw)
    \/ \E p \in Procs : DeleteFailAudit(p)
    \/ \E p \in Procs : DeleteOne(p)
    \/ \E p \in Procs : DeleteAudit(p)
    \/ \E p \in Procs : \E pw \in StrongPasswords : LoginFind(p, "alice", pw)
    \/ \E p \in Procs : LoginNoUserAudit(p)
    \/ \E p \in Procs : LoginLockedAudit(p)
    \/ \E p \in Procs : LoginFailAudit(p)
    \/ \E p \in Procs : LoginFailUpdate(p)
    \/ \E p \in Procs : LoginSuccessUpdate(p)
    \/ \E p \in Procs : LoginSuccessAudit(p)

LockedDeleteSpec == InitLockedDelete /\ [][LockedDeleteNext]_vars

---------------------------------------------------------------------------
\* Vocabulary of the properties.

DocOf(S, id) == CHOOSE d \in S : d._id = id
Exists(S, id) == \E d \in S : d._id = id

InFlight(p) == ~Free(p)
\* p takes its first step (the handler is entered) in this step.
Starts(p, op) == Free(p) /\ proc'[p] /= proc[p] /\ proc'[p].op = op
\* p returns a result to its caller in this step.
Returns(p) == InFlight(p) /\ proc'[p].pc = "done"

Min(a, b) == IF a <= b THEN a ELSE b

IsLocked(d) == d.locked_until /= None /\ d.locked_until > now

\* Number of entries of the audit log of the given types for username u.
RECURSIVE CountEntries(_, _, _)
CountEntries(log, u, types) ==
    IF log = <<>> THEN 0
    ELSE (IF Head(log).username = u /\ Head(log).event_type \in types
          THEN 1 ELSE 0) + CountEntries(Tail(log), u, types)

---------------------------------------------------------------------------
\* C1: the login that completes the 5th consecutive wrong-password attempt
\* (it saw counter 4) leaves the account with counter 5 and lock expiry =
\* time of the attempt + 15 minutes; and a login that looks the account up
\* while now < lock expiry goes to the Locked answer whatever password it
\* brought, returns the Locked error and leaves the users collection alone.
C1_LockedAfterFifthFailure ==
    [][\A p \in Procs :
        /\ (/\ proc[p].pc = "login_fail_update"
            /\ Returns(p)
            /\ proc[p].upd.failed_login_attempts = MAX_LOGIN_ATTEMPTS)
           => LET d == DocOf(users', proc[p].uid)
              IN /\ d.failed_login_attempts = MAX_LOGIN_ATTEMPTS
                 /\ d.locked_until =
                       proc[p].ev.timestamp + LOCKOUT_DURATION_MINUTES
                 /\ proc'[p].res = InvalidCredential
        /\ (/\ Starts(p, "login")
            /\ Found(FindByUsername(proc'[p].name))
            /\ IsLocked(FindByUsername(proc'[p].name)))
           => proc'[p].pc = "login_locked_audit"
        /\ (proc[p].pc = "login_locked_audit" /\ Returns(p))
           => /\ proc'[p].res.success = FALSE
              /\ proc'[p].res.msg = LockedMsg
              /\ users' = users
      ]_vars

\* C1 witness: the account is locked by a 5th failure (counter 5, expiry in
\* the future) and a login with the correct password is being answered
\* Locked.
C1_Witness ==
    \E p \in Procs :
        /\ proc[p].pc = "login_locked_audit"
        /\ Exists(users, proc[p].uid)
        /\ LET d == DocOf(users, proc[p].uid)
           IN /\ verify_password(proc[p].pw, d.hashed_password)
              /\ d.failed_login_attempts = MAX_LOGIN_ATTEMPTS
              /\ IsLocked(d)

\* C2: no failed-attempt increment is lost.  While no login is in flight,
\* the clock has not moved and the audit log of alice shows nothing but F
\* wrong-password logins since registration (no success, no attempt during a
\* lock, no unlock), the stored counter is min(F, 5) and the account is
\* locked when F >= 5.
FailureTypes == {"failed_login", "account_locked"}

C2_NoLostIncrement ==
    (/\ \A p \in Procs : Free(p)
     /\ now = 0
     /\ CountEntries(audit, "alice", FailureTypes) = Len(audit) - 1)
    => LET F == CountEntries(audit, "alice", FailureTypes)
           d == DocOf(users, 1)
       IN /\ d.failed_login_attempts = Min(F, MAX_LOGIN_ATTEMPTS)
          /\ (F >= MAX_LOGIN_ATTEMPTS => d.locked_until /= None)

\* C3: no double unlock.  When a login that read an expired lock performs
\* its lazy unlock write, the stored lock expiry is the one it read or is
\* already cleared, and the stored counter is the one it read or is already
\* 0: the write never clears a lock or a counter that another attempt
\* stored after the read.
C3_NoDoubleUnlock ==
    [][\A p \in Procs :
        (proc[p].pc = "login_unlock" /\ proc'[p].pc /= "login_unlock")
        => LET d == DocOf(users, proc[p].uid)
               r == proc[p].doc
           IN /\ d.locked_until \in {r.locked_until, None}
              /\ d.failed_login_attempts \in {r.failed_login_attempts, 0}
      ]_vars

---------------------------------------------------------------------------
\* Reset tokens in the store.
StoredTokens(S) ==
    {x \in UNION {{d.password_reset_tokens[i] :
                      i \in 1..Len(d.password_reset_tokens)} : d \in S} : TRUE}

Holds(S, t) == \E x \in StoredTokens(S) : x.token = t

\* A confirmPasswordReset with token t has returned success.
Redeemed(t) ==
    \E q \in Procs :
        /\ proc[q].pc = "done"
        /\ proc[q].op = "reset"
        /\ proc[q].res.success
        /\ proc[q].tok = t

HasEntry(type, u) ==
    \E i \in 1..Len(audit) :
        audit[i].event_type = type /\ audit[i].username = u

\* C4: a reset token is accepted at most once in sequential use.  A
\* confirmPasswordReset that starts after one with the same token has
\* returned success finds no match, and a confirmPasswordReset that finds
\* no match returns InvalidOrExpiredToken and changes no account.
C4_TokenAcceptedOnce ==
    [][\A p \in Procs :
        /\ (/\ Starts(p, "reset")
            /\ validate_password_strength(proc'[p].pw)
            /\ Redeemed(proc'[p].tok))
           => proc'[p].pc = "reset_fail_audit"
        /\ (proc[p].pc = "reset_fail_audit" /\ Returns(p))
           => /\ proc'[p].res = InvalidOrExpiredToken
              /\ users' = users
      ]_vars

\* C4 witness: token 1 was redeemed (a password_reset_success is logged and
\* the token is gone) and a second redemption of token 1 is being rejected.
C4_Witness ==
    \E p \in Procs :
        /\ proc[p].pc = "reset_fail_audit"
        /\ proc[p].tok = 1
        /\ Redeemed(1)
        /\ ~Holds(users, 1)
        /\ HasEntry("password_reset_success", "alice")

\* C5: redemption is atomic with the password change.  No two
\* confirmPasswordReset calls return success for the same token.
C5_AtMostOneRedemption ==
    \A p \in Procs : \A q \in Procs :
        (/\ p /= q
         /\ proc[p].pc = "done" /\ proc[p].op = "reset" /\ proc[p].res.success
         /\ proc[q].pc = "done" /\ proc[q].op = "reset" /\ proc[q].res.success)
        => proc[p].tok /= proc[q].tok

\* C6: a reset token is redeemable only while now < issued-at + 30 minutes.
\* Every stored token expires 30 minutes after it was created; a
\* confirmPasswordReset with a stored, unused token whose expiry is <= now
\* finds no match; and a confirmPasswordReset that finds no match returns
\* InvalidOrExpiredToken and leaves every account (hash, counter, lock
\* expiry, tokens) unchanged.
C6_ExpiredTokenRejected ==
    [][\A p \in Procs :
        /\ \A x \in StoredTokens(users') :
              x.expires_at = x.created_at + PASSWORD_RESET_TOKEN_EXPIRY_MINUTES
        /\ (/\ Starts(p, "reset")
            /\ validate_password_strength(proc'[p].pw)
            /\ Holds(users, proc'[p].tok)
            /\ \A x \in StoredTokens(users) :
                  x.token = proc'[p].tok => x.expires_at <= now)
           => proc'[p].pc = "reset_fail_audit"
        /\ (proc[p].pc = "reset_fail_audit" /\ Returns(p))
           => /\ proc'[p].res = InvalidOrExpiredToken
              /\ proc'[p].res.success = FALSE
              /\ users' = users
      ]_vars

\* C6 witness: a redemption of a token that is still stored, was never
\* redeemed, and has expired, is being rejected.
C6_Witness ==
    \E p \in Procs :
        /\ proc[p].pc = "reset_fail_audit"
        /\ ~Redeemed(proc[p].tok)
        /\ \E x \in StoredTokens(users) :
              /\ x.token = proc[p].tok
              /\ x.used = FALSE
              /\ x.expires_at <= now

\* C7: tokens of one account are independent.  Issuing a token appends a
\* fresh, unused token (expiry = creation + 30) and keeps every earlier token
\* of the account; redeeming token t removes the tokens with value t and no
\* other; stored token values are pairwise distinct; and a redemption of a
\* stored, unused, unexpired token with a strong password goes on to the
\* password update.
C7_TokensIndependent ==
    [][\A p \in Procs :
        /\ (/\ proc[p].pc = "reqreset_push"
            /\ proc'[p].pc = "reqreset_audit"
            /\ Exists(users, proc[p].uid))
           => LET old == DocOf(users, proc[p].uid).password_reset_tokens
                  new == DocOf(users', proc[p].uid).password_reset_tokens
              IN /\ Len(new) = Len(old) + 1
                 /\ SubSeq(new, 1, Len(old)) = old
                 /\ new[Len(new)].token = proc[p].tok
                 /\ new[Len(new)].used = FALSE
                 /\ new[Len(new)].expires_at = new[Len(new)].created_at
                        + PASSWORD_RESET_TOKEN_EXPIRY_MINUTES
                 /\ \A i \in 1..Len(old) : old[i].token /= proc[p].tok
        /\ (/\ proc[p].pc = "reset_update"
            /\ proc'[p].pc = "reset_audit"
            /\ Exists(users, proc[p].uid))
           => LET old == DocOf(users, proc[p].uid).password_reset_tokens
                  new == DocOf(users', proc[p].uid).password_reset_tokens
              IN new = SelectSeq(old, LAMBDA x : x.token /= proc[p].tok)
        /\ (/\ Starts(p, "reset")
            /\ validate_password_strength(proc'[p].pw)
            /\ \E x \in StoredTokens(users) :
                  /\ x.token = proc'[p].tok
                  /\ x.used = FALSE
                  /\ x.expires_at > now)
           => proc'[p].pc = "reset_update"
        /\ \A d \in users' :
              \A i \in 1..Len(d.password_reset_tokens) :
                 \A j \in 1..Len(d.password_reset_tokens) :
                    i /= j => d.password_reset_tokens[i].token
                                 /= d.password_reset_tokens[j].token
      ]_vars

\* C7 witness: two tokens were issued for alice, and the redemption of each
\* has returned success.
C7_Witness ==
    /\ nextTok >= 3
    /\ \E p \in Procs : \E q \in Procs :
          /\ proc[p].pc = "done" /\ proc[p].op = "reset" /\ proc[p].res.success
          /\ proc[q].pc = "done" /\ proc[q].op = "reset" /\ proc[q].res.success
          /\ proc[p].tok = 1
          /\ proc[q].tok = 2

\* C8: the password update of a confirmPasswordReset sets the account's hash
\* to the hash of the new password and clears the lockout (counter 0, no
\* lock expiry), so that a login on the account as stored right after it is
\* accepted with the new password and counted as a failure with any other;
\* the call then returns success.
C8_ResetSetsPasswordAndUnlocks ==
    [][\A p \in Procs :
        /\ (/\ proc[p].pc = "reset_update"
            /\ proc'[p].pc = "reset_audit"
            /\ Exists(users', proc[p].uid))
           => LET d == DocOf(users', proc[p].uid)
              IN /\ d.hashed_password = hash_password(proc[p].pw)
                 /\ d.failed_login_attempts = 0
                 /\ d.locked_until = None
                 /\ LoginEnter(LoginLocals(d.username, proc[p].pw), d).pc
                       = "login_success_update"
                 /\ \A pw \in Passwords \ {proc[p].pw} :
                       LoginEnter(LoginLocals(d.username, pw), d).pc
                          = "login_fail_audit"
        /\ (proc[p].pc = "reset_audit" /\ Returns(p))
           => proc'[p].res = Ok("Password reset successfully")
      ]_vars

\* C8 witness: alice's account was locked until minute 15; before that time
\* a reset has set the password to Passw0rd!B and a login with Passw0rd!B
\* has returned success.
C8_Witness ==
    /\ now < LOCKOUT_DURATION_MINUTES
    /\ HasEntry("account_locked", "alice")
    /\ HasEntry("password_reset_success", "alice")
    /\ DocOf(users, 1).hashed_password = hash_password("Passw0rd!B")
    /\ \E p \in Procs :
          /\ proc[p].pc = "done"
          /\ proc[p].op = "login"
          /\ proc[p].res.success

\* C9: the audit append never makes the triggering operation fail.  No
\* operation ends with the audit write's exception reaching its caller.
C9_AuditFailureAbsorbed ==
    \A p \in Procs :
        ~(proc[p].pc = "raised" /\ proc[p].res.msg = AuditWriteError)

\* C10: username and email are globally unique in every reachable state.
C10_UniqueUsernameAndEmail ==
    \A d \in users : \A e \in users :
        d._id /= e._id => (d.username /= e.username /\ d.email /= e.email)

---------------------------------------------------------------------------
\* Number of failed_login entries at the end of the audit log.
RECURSIVE TrailingFailures(_)
TrailingFailures(log) ==
    IF log = <<>> THEN 0
    ELSE IF log[Len(log)].event_type = "failed_login"
    THEN 1 + TrailingFailures(SubSeq(log, 1, Len(log) - 1))
    ELSE 0

\* C11: after N < 5 consecutive sequential wrong-password logins from
\* counter 0 (the audit log is the registration followed by N failed_login
\* entries and no login is in flight), the stored counter is N and the lock
\* expiry is unset; and every wrong-password attempt that stores its counter
\* returns the generic invalid-credential error.
C11_CounterCountsFailures ==
    /\ [](( /\ Quiescent
            /\ TrailingFailures(audit) = Len(audit) - 1 )
          => LET d == DocOf(users, 1)
             IN /\ TrailingFailures(audit) < MAX_LOGIN_ATTEMPTS
                /\ d.failed_login_attempts = TrailingFailures(audit)
                /\ d.locked_until = None)
    /\ [][\A p \in Procs :
            (proc[p].pc = "login_fail_update" /\ proc'[p] /= proc[p])
            => /\ proc'[p].pc = "done"
               /\ proc'[p].res = InvalidCredential
               /\ proc'[p].res.success = FALSE
         ]_vars

\* C11 witness: four wrong-password logins on the fresh account have
\* returned one after the other; the counter is 4 and the account unlocked.
C11_Witness ==
    /\ ops = MaxSeqOps - 4
    /\ Quiescent
    /\ Len(audit) = 5
    /\ TrailingFailures(audit) = 4
    /\ DocOf(users, 1).failed_login_attempts = 4
    /\ DocOf(users, 1).locked_until = None
    /\ \E p \in Procs : proc[p].pc = "done" /\ proc[p].res = InvalidCredential

\* C12: a locked account becomes usable again.  A correct-password login
\* that looks the account up when now >= lock expiry goes on to the lazy
\* unlock; the unlock stores counter 0 and no lock expiry and leads to the
\* success update; the success update leaves counter 0 and no lock expiry;
\* and the login returns success with a session.
C12_UsableAfterLockExpiry ==
    [][\A p \in Procs :
        /\ (/\ Starts(p, "login")
            /\ Found(FindByUsername(proc'[p].name))
            /\ LET d == FindByUsername(proc'[p].name)
               IN /\ d.locked_until /= None
                  /\ d.locked_until <= now
                  /\ d.is_active
                  /\ verify_password(proc'[p].pw, d.hashed_password))
           => proc'[p].pc = "login_unlock"
        /\ (/\ proc[p].pc = "login_unlock"
            /\ proc'[p] /= proc[p]
            /\ verify_password(proc[p].pw, proc[p].doc.hashed_password))
           => /\ proc'[p].pc = "login_success_update"
              /\ DocOf(users', proc[p].uid).failed_login_attempts = 0
              /\ DocOf(users', proc[p].uid).locked_until = None
        /\ (proc[p].pc = "login_success_update" /\ proc'[p] /= proc[p])
           => /\ proc'[p].pc = "login_success_audit"
              /\ DocOf(users', proc[p].uid).failed_login_attempts = 0
              /\ DocOf(users', proc[p].uid).locked_until = None
        /\ (proc[p].pc = "login_success_audit" /\ proc'[p] /= proc[p])
           => /\ proc'[p].pc = "done"
              /\ proc'[p].res = Ok("bearer")
              /\ proc'[p].res.success
      ]_vars

\* C12 witness: the account was locked by a 5th failure, the lock has
\* expired, and a login has returned success leaving counter 0 and no lock.
C12_Witness ==
    /\ HasEntry("account_locked", "alice")
    /\ now >= LOCKOUT_DURATION_MINUTES
    /\ audit[Len(audit)].event_type = "login_success"
    /\ \E p \in Procs : proc[p].pc = "done" /\ proc[p].res = Ok("bearer")
    /\ DocOf(users, 1).failed_login_attempts = 0
    /\ DocOf(users, 1).locked_until = None

\* C13: the counter counts consecutive failures only.  The success update
\* of a login stores counter 0; and when the audit log ends with a
\* login_success followed by n failed_login entries and no login is in
\* flight, the stored counter is n (< 5) and the account is unlocked.
C13_SuccessResetsCounter ==
    /\ [](( /\ Quiescent
            /\ TrailingFailures(audit) < Len(audit)
            /\ audit[Len(audit) - TrailingFailures(audit)].event_type
                  = "login_success" )
          => LET d == DocOf(users, 1)
             IN /\ TrailingFailures(audit) < MAX_LOGIN_ATTEMPTS
                /\ d.failed_login_attempts = TrailingFailures(audit)
                /\ d.locked_until = None)
    /\ [][\A p \in Procs :
            (proc[p].pc = "login_success_update" /\ proc'[p] /= proc[p])
            => DocOf(users', proc[p].uid).failed_login_attempts = 0
         ]_vars

\* C13 witness: 4 failures, 1 success, 4 failures: the counter is 4 and the
\* account is unlocked.
C13_Witness ==
    /\ Quiescent
    /\ Len(audit) = 10
    /\ TrailingFailures(audit) = 4
    /\ audit[6].event_type = "login_success"
    /\ TrailingFailures(SubSeq(audit, 1, 5)) = 4
    /\ DocOf(users, 1).failed_login_attempts = 4
    /\ DocOf(users, 1).locked_until = None

\* C14: requestPasswordReset answers an unknown email exactly as it answers
\* a registered one.  Every requestPasswordReset that has returned reports
\* success, and its result and its /forgot-password body are the generic
\* acknowledgment and nothing else.
C14_SameAcknowledgment ==
    \A p \in Procs :
        (proc[p].pc = "done" /\ proc[p].op = "reqreset")
        => /\ proc[p].res.success
           /\ proc[p].res = Ok(ResetAck)
           /\ forgot_password(proc[p].res)
                 = [message |-> ResetAck, reset_token |-> None]

---------------------------------------------------------------------------
\* The login that enters in this step names a registered account and brings
\* a password that does not match its hash.
StartsWrongPassword(p) ==
    /\ Starts(p, "login")
    /\ Found(FindByUsername(proc'[p].name))
    /\ ~verify_password(proc'[p].pw,
                        FindByUsername(proc'[p].name).hashed_password)

\* The path of an unknown username and the path of a wrong password both end
\* in the same error: the steps after the lookup.
SameErrorPaths(p) ==
    /\ (Starts(p, "login") /\ ~Found(FindByUsername(proc'[p].name)))
       => proc'[p].pc = "login_nouser_audit"
    /\ (/\ proc[p].pc = "login_unlock"
        /\ proc'[p] /= proc[p]
        /\ ~verify_password(proc[p].pw, proc[p].doc.hashed_password))
       => proc'[p].pc = "login_fail_audit"
    /\ (proc[p].pc = "login_fail_audit" /\ proc'[p] /= proc[p])
       => proc'[p].pc = "login_fail_update"
    /\ (/\ proc[p].pc \in {"login_nouser_audit", "login_fail_update"}
        /\ proc'[p] /= proc[p])
       => /\ proc'[p].pc = "done"
          /\ proc'[p].res = InvalidCredential

\* C15 as stated: in every stored state a login with a registered username
\* and a wrong password ends in the same error as a login with an
\* unregistered username.
C15_SameErrorEveryState ==
    [][\A p \in Procs :
        /\ SameErrorPaths(p)
        /\ StartsWrongPassword(p)
           => proc'[p].pc \in {"login_fail_audit", "login_unlock"}
      ]_vars

\* C15 amended: in every stored state in which the registered account is
\* not locked (no lock expiry, or lock expiry <= now), a login with a
\* registered username and a wrong password ends in the same error as a
\* login with an unregistered username; while the account is locked the
\* registered username is answered Locked.
C15_SameErrorUnlessLocked ==
    [][\A p \in Procs :
        /\ SameErrorPaths(p)
        /\ (/\ StartsWrongPassword(p)
            /\ ~IsLocked(FindByUsername(proc'[p].name)))
           => proc'[p].pc \in {"login_fail_audit", "login_unlock"}
        /\ (/\ StartsWrongPassword(p)
            /\ IsLocked(FindByUsername(proc'[p].name)))
           => /\ proc'[p].pc = "login_locked_audit"
              /\ proc'[p].res.msg = LockedMsg
      ]_vars

\* C15 witness: a wrong-password login on alice has returned the
\* invalid-credential error (no login of bob has been answered yet) while a
\* login of the unregistered bob is on its way to the same answer.
C15_Witness ==
    \E p \in Procs : \E q \in Procs :
        /\ proc[p].pc = "login_nouser_audit"
        /\ proc[q].pc = "done"
        /\ proc[q].op = "login"
        /\ proc[q].res = InvalidCredential
        /\ ~HasEntry("failed_login", "bob")

---------------------------------------------------------------------------
\* The three causes for which a token fails.
NeverIssued(t) == t \notin 1..(nextTok - 1)

Expired(t) ==
    /\ Holds(users, t)
    /\ \A x \in StoredTokens(users) : x.token = t => x.expires_at <= now

\* C16: one error for every token failure cause.  A confirmPasswordReset
\* with a strong password and a token that was never issued, has expired or
\* was already redeemed goes to the same failure path with the same audit
\* entry, and the failure path returns InvalidOrExpiredToken.
C16_OneTokenError ==
    [][\A p \in Procs :
        /\ (/\ Starts(p, "reset")
            /\ validate_password_strength(proc'[p].pw)
            /\ \/ NeverIssued(proc'[p].tok)
               \/ Expired(proc'[p].tok)
               \/ Redeemed(proc'[p].tok))
           => /\ proc'[p].pc = "reset_fail_audit"
              /\ proc'[p].ev.event_type = "password_reset_failed"
              /\ proc'[p].ev.username = "unknown"
              /\ proc'[p].name = ""
        /\ (proc[p].pc = "reset_fail_audit" /\ proc'[p] /= proc[p])
           => /\ proc'[p].pc = "done"
              /\ proc'[p].res = InvalidOrExpiredToken
      ]_vars

\* C16 witness: a redemption of the never-issued token 0 has returned
\* InvalidOrExpiredToken while a redemption of a stored, expired token is on
\* the same failure path.
C16_Witness ==
    \E p \in Procs : \E q \in Procs :
        /\ proc[p].pc = "done"
        /\ proc[p].op = "reset"
        /\ proc[p].tok = 0
        /\ proc[p].res = InvalidOrExpiredToken
        /\ proc[q].pc = "reset_fail_audit"
        /\ Expired(proc[q].tok)
        /\ ~Redeemed(proc[q].tok)

---------------------------------------------------------------------------
\* C17: a weak new password is rejected before any mutation.  A
\* confirmPasswordReset whose password fails the strength check returns the
\* weak-password error at once, whatever the token, and leaves the users
\* collection (hash, counter, lock expiry, tokens) and the audit log
\* unchanged; and a stored, unused, unexpired token presented with a strong
\* password is accepted, so the token of a rejected call is still
\* redeemable.
C17_WeakPasswordRejectedFirst ==
    [][\A p \in Procs :
        /\ (Starts(p, "reset") /\ ~validate_password_strength(proc'[p].pw))
           => /\ proc'[p].pc = "done"
              /\ proc'[p].res = Err("weak password")
              /\ proc'[p].res.success = FALSE
              /\ users' = users
              /\ audit' = audit
        /\ (/\ Starts(p, "reset")
            /\ validate_password_strength(proc'[p].pw)
            /\ \E d \in users : ElemMatch(d, proc'[p].tok))
           => /\ proc'[p].pc = "reset_update"
              /\ proc'[p].upd.hashed_password = hash_password(proc'[p].pw)
      ]_vars

\* C17 witness: a redemption of a token with a weak password has been
\* rejected, and the token is still stored, unused and unexpired.
C17_Witness ==
    \E p \in Procs :
        /\ proc[p].pc = "done"
        /\ proc[p].op = "reset"
        /\ proc[p].res = Err("weak password")
        /\ \E d \in users : ElemMatch(d, proc[p].tok)
        /\ ~Redeemed(proc[p].tok)

---------------------------------------------------------------------------
UsernameExists == "User with this username already exists"
EmailExists == "User with this email already exists"

\* C18: register(u, e, fn, pw) changes nothing when it fails.  Its first
\* step writes nothing; with a weak password it returns the weak-password
\* error; with a strong password and a stored account that has username u
\* or email e it returns an error that names a field that is duplicated;
\* otherwise it goes on to the insert.  The insert adds exactly one account,
\* with a new id, the given username, role user, counter 0, no lock, no
\* reset tokens and active, and changes no other account; the call then
\* returns success.
C18_RegisterAllOrNothing ==
    [][\A p \in Procs :
        /\ \A u \in Usernames, e \in Emails, fn \in FullNames, pw \in Passwords :
              CreateFind(p, u, e, fn, pw)
              => /\ users' = users
                 /\ audit' = audit
                 /\ ~validate_password_strength(pw)
                    => /\ proc'[p].pc = "done"
                       /\ proc'[p].res = Err("weak password")
                 /\ (/\ validate_password_strength(pw)
                     /\ \E d \in users : d.username = u \/ d.email = e)
                    => /\ proc'[p].pc = "done"
                       /\ proc'[p].res.success = FALSE
                       /\ proc'[p].res.msg \in {UsernameExists, EmailExists}
                       /\ proc'[p].res.msg = UsernameExists
                          => \E d \in users : d.username = u
                       /\ proc'[p].res.msg = EmailExists
                          => \E d \in users : d.email = e
                 /\ (/\ validate_password_strength(pw)
                     /\ ~\E d \in users : d.username = u \/ d.email = e)
                    => /\ proc'[p].pc = "create_insert"
                       /\ proc'[p].doc.username = u
                       /\ proc'[p].doc.email = e
        /\ (proc[p].pc = "create_insert" /\ proc'[p].pc = "create_audit")
           => /\ Cardinality(users') = Cardinality(users) + 1
              /\ users \subseteq users'
              /\ \A d \in users' \ users :
                    /\ ~Exists(users, d._id)
                    /\ d.username = proc[p].name
                    /\ d.email = proc[p].doc.email
                    /\ d.hashed_password = hash_password(proc[p].pw)
                    /\ d.role = "user"
                    /\ d.failed_login_attempts = 0
                    /\ d.locked_until = None
                    /\ d.password_reset_tokens = <<>>
                    /\ d.is_active = TRUE
        /\ (proc[p].pc = "create_audit" /\ proc'[p] /= proc[p])
           => /\ proc'[p].pc = "done"
              /\ proc'[p].res = Ok("User created successfully")
      ]_vars

\* C18 witness: beside alice's account, bob's registration has succeeded
\* and added one account, and a registration that names alice again has
\* been refused for its username.
C18_Witness ==
    /\ Cardinality(users) = 2
    /\ \E d \in users : d.username = "bob" /\ d.role = "user"
    /\ \E p \in Procs : \E q \in Procs :
          /\ proc[p].pc = "done" /\ proc[p].op = "create"
          /\ proc[p].res = Ok("User created successfully")
          /\ proc[q].pc = "done" /\ proc[q].op = "create"
          /\ proc[q].res = Err(UsernameExists)

---------------------------------------------------------------------------
\* The token values stored on document d.
TokensOf(d) ==
    {d.password_reset_tokens[i].token : i \in 1..Len(d.password_reset_tokens)}

\* C19: deleteAccount(u, pw).  Its first step writes nothing: with a wrong
\* password it goes to the failure answer, which is "Incorrect password"
\* with the users collection unchanged; with the right password it goes on
\* to the delete.  The delete removes the account and nothing else: after
\* it no account has that id or that username and no stored token is one of
\* the account's tokens, so that a login with that username that starts
\* afterwards is answered as an unknown user, a redemption of any of the
\* account's tokens that starts afterwards fails, and the write of a
\* redemption or a reset request that was in flight changes no account.
C19_DeleteRemovesAccountAndTokens ==
    [][\A p \in Procs :
        /\ \A u \in Usernames, pw \in Passwords :
              DeleteFind(p, u, pw)
              => /\ users' = users
                 /\ (/\ Found(FindByUsername(u))
                     /\ ~verify_password(pw, FindByUsername(u).hashed_password))
                    => proc'[p].pc = "delete_fail_audit"
                 /\ (/\ Found(FindByUsername(u))
                     /\ verify_password(pw, FindByUsername(u).hashed_password))
                    => /\ proc'[p].pc = "delete_one"
                       /\ proc'[p].uid = FindByUsername(u)._id
        /\ (proc[p].pc = "delete_fail_audit" /\ proc'[p] /= proc[p])
           => /\ proc'[p].pc = "done"
              /\ proc'[p].res = Err("Incorrect password")
              /\ users' = users
        /\ (/\ proc[p].pc = "delete_one"
            /\ proc'[p] /= proc[p]
            /\ Exists(users, proc[p].uid))
           => LET d == DocOf(users, proc[p].uid)
              IN /\ users' = users \ {d}
                 /\ ~Exists(users', d._id)
                 /\ ~\E x \in users' : x.username = d.username
                 /\ \A t \in TokensOf(d) : ~Holds(users', t)
        /\ (proc[p].pc = "delete_audit" /\ proc'[p] /= proc[p])
           => /\ proc'[p].pc = "done"
              /\ proc'[p].res = Ok("Account deleted successfully")
        /\ (/\ ~Exists(users, 1)
            /\ Starts(p, "login")
            /\ proc'[p].name = "alice")
           => proc'[p].pc = "login_nouser_audit"
        /\ (/\ ~Exists(users, 1)
            /\ Starts(p, "reset"))
           => proc'[p].pc = "reset_fail_audit"
        /\ (/\ ~Exists(users, 1)
            /\ proc[p].pc \in {"reset_update", "reqreset_push"}
            /\ proc'[p] /= proc[p])
           => users' = users
      ]_vars

\* C19 witness: alice's account, which held the unexpired token 1, has been
\* deleted, and a redemption of token 1 that started afterwards is being
\* rejected.
C19_Witness ==
    /\ users = {}
    /\ HasEntry("account_deleted", "alice")
    /\ ~HasEntry("password_reset_success", "alice")
    /\ \E p \in Procs :
          /\ proc[p].pc = "reset_fail_audit"
          /\ proc[p].tok = 1

---------------------------------------------------------------------------
\* C20: the audit log is append-only and outlives the account.  Every step
\* of every operation leaves the audit log as it was or appends entries to
\* it: the log after the step starts with the log before the step.
C20_AuditAppendOnly ==
    [][/\ Len(audit') >= Len(audit)
       /\ SubSeq(audit', 1, Len(audit)) = audit
       /\ Len(audit') <= Len(audit) + 1
      ]_vars

\* C20 witness: alice's account has been deleted and the audit log still
\* holds her registration, followed by the entry of the deletion.
C20_Witness ==
    /\ ~Exists(users, 1)
    /\ audit[1] = RegistrationEntry("alice")
    /\ audit[Len(audit)].event_type = "account_deleted"
    /\ audit[Len(audit)].username = "alice"

---------------------------------------------------------------------------
\* The events of a get_user_audit_log result that has been returned.
EventsOf(p) == proc[p].doc.events

Queried(p) == proc[p].pc = "done" /\ proc[p].op = "auditlog"

\* C21: two events of one username with the same timestamp are returned by
\* getAuditLog in the reverse of the order in which they were appended (the
\* later one first).
C21_TiesInReverseAppendOrder ==
    \A p \in Procs :
        Queried(p)
        => LET r == EventsOf(p)
           IN \A i \in 1..Len(r) : \A j \in 1..Len(r) :
                (i < j /\ audit[r[i]].timestamp = audit[r[j]].timestamp)
                => r[i] > r[j]

\* C22: getAuditLog(u, limit) returns only events of username u, sorted by
\* timestamp descending, exactly min(limit, number of events of u) of them,
\* and no event left out is more recent than one returned.
C22_QueryReturnsMostRecent ==
    [][\A p \in Procs : \A u \in Usernames : \A limit \in LimitInputs :
        (limit >= 0 /\ GetUserAuditLog(p, u, limit))
        => LET r == proc'[p].doc.events
               n == Cardinality(Matching(u))
           IN /\ Len(r) = Min(limit, n)
              /\ \A i \in 1..Len(r) : audit[r[i]].username = u
              /\ \A i \in 1..Len(r) : \A j \in 1..Len(r) :
                    i < j => audit[r[i]].timestamp >= audit[r[j]].timestamp
              /\ \A m \in Matching(u) :
                    (\A i \in 1..Len(r) : r[i] /= m)
                    => \A i \in 1..Len(r) :
                          audit[m].timestamp <= audit[r[i]].timestamp
      ]_vars

---------------------------------------------------------------------------
InvalidRole == Err("Invalid role. Must be 'user' or 'admin'")

\* C23: every stored role is user or admin.  setRole(u, role) writes
\* nothing in its first step; with a role other than user or admin it
\* returns InvalidRole at once; with a valid role and an account named u it
\* goes on to an update of that account with that role, and the update
\* changes the role to that value, stamps last_activity, changes no other
\* field and no other account; the call then returns success.
C23_RoleIsUserOrAdmin ==
    /\ [](\A d \in users : d.role \in Roles)
    /\ [][\A p \in Procs :
          /\ \A u \in Usernames : \A role \in RoleInputs :
                RoleFind(p, u, role)
                => /\ users' = users
                   /\ audit' = audit
                   /\ role \notin Roles
                      => proc'[p].pc = "done" /\ proc'[p].res = InvalidRole
                   /\ (role \in Roles /\ Found(FindByUsername(u)))
                      => /\ proc'[p].pc = "role_update"
                         /\ proc'[p].uid = FindByUsername(u)._id
                         /\ proc'[p].upd.role = role
          /\ (proc[p].pc = "role_update" /\ proc'[p].pc /= "role_update")
             => /\ Cardinality(users') = Cardinality(users)
                /\ \A d \in users :
                      IF d._id = proc[p].uid
                      THEN \E e \in users' :
                             /\ e.role = proc[p].upd.role
                             /\ e.last_activity = proc[p].upd.last_activity
                             /\ e = [d EXCEPT !.role = e.role,
                                              !.last_activity = e.last_activity]
                      ELSE d \in users'
          /\ (proc[p].pc = "role_audit" /\ proc'[p] /= proc[p])
             => proc'[p].pc = "done" /\ proc'[p].res = Ok("User role set")
       ]_vars

\* C23 witness: alice has been made admin by a setRole that returned
\* success, and a setRole with an invalid role has been refused.
C23_Witness ==
    /\ \E d \in users : d.username = "alice" /\ d.role = "admin"
    /\ \E p \in Procs : \E q \in Procs :
          /\ proc[p].pc = "done" /\ proc[p].op = "role"
          /\ proc[p].res = Ok("User role set")
          /\ proc[q].pc = "done" /\ proc[q].op = "role"
          /\ proc[q].res = InvalidRole

---------------------------------------------------------------------------
\* The fields update_user_profile may write.
ProfileFields == {"full_name", "email", "last_activity"}

\* C24: updateProfile(u, fields) writes nothing in its first step and
\* returns NotFound when no account is named u; its check of a new email
\* writes nothing and returns DuplicateEmail when another account has that
\* email; and its update changes, of the account it looked up, no field
\* other than full name, email and last-activity, and changes no other
\* account.
C24_ProfileUpdateFrame ==
    [][\A p \in Procs :
        /\ \A u \in Usernames : \A fn \in FullNames \cup {NoStr} :
           \A e \in Emails \cup {NoStr} :
              ProfileFind(p, u, fn, e)
              => /\ users' = users
                 /\ ~Found(FindByUsername(u))
                    => /\ proc'[p].pc = "done"
                       /\ proc'[p].res = Err("User not found")
        /\ (proc[p].pc = "profile_check_email" /\ proc'[p] /= proc[p])
           => /\ users' = users
              /\ (\E d \in users : /\ d.email = proc[p].doc.email
                                    /\ d._id /= proc[p].uid)
                 => /\ proc'[p].pc = "done"
                    /\ proc'[p].res = Err("Email already in use")
        /\ (proc[p].pc = "profile_update" /\ proc'[p] /= proc[p])
           => /\ Cardinality(users') = Cardinality(users)
              /\ \A d \in users :
                    IF d._id = proc[p].uid
                    THEN \E x \in users' :
                           /\ x._id = d._id
                           /\ \A f \in DOMAIN d \ ProfileFields : x[f] = d[f]
                           /\ \A f \in DOMAIN proc[p].upd :
                                 proc'[p].pc = "profile_audit"
                                 => x[f] = proc[p].upd[f]
                    ELSE d \in users'
        /\ (proc[p].op = "profile" /\ proc'[p].pc \in {"done", "raised"}
               /\ proc'[p] /= proc[p])
           => users' = users
      ]_vars

\* C24 witness: beside bob's account, alice's full name has been changed by
\* a profile update that returned success, her other fields are as
\* registered, and a profile update that asked for bob's email for her was
\* refused and left her email as it was.
C24_Witness ==
    /\ \E d \in users : d.username = "bob" /\ d.email = "b@x.io"
    /\ \E d \in users : d = [Alice EXCEPT !.full_name = "Bea",
                                          !.last_activity = d.last_activity]
    /\ \E p \in Procs : \E q \in Procs :
          /\ proc[p].pc = "done" /\ proc[p].op = "profile"
          /\ proc[p].res = Ok("Profile updated successfully")
          /\ proc[q].pc = "done" /\ proc[q].op = "profile"
          /\ proc[q].res = Err("Email already in use")

---------------------------------------------------------------------------
\* The account named u (usernames are distinct here).
Named(u) == CHOOSE d \in users : d.username = u

\* C25: accounts are independent.  A step of an operation changes no
\* account but the one it looked up, and that one is the account it was
\* invoked for: the one with the username a login names, the one with the
\* email a reset request names, the one holding the token a redemption
\* names.  What a login does is decided by the named account's own lock,
\* password hash and counter, and whether a redemption is accepted by
\* whether that token is stored, whatever the state of the other account.
C25_AccountsIndependent ==
    [][\A p \in Procs :
        /\ proc'[p] /= proc[p]
           => \A d \in users : d._id /= proc[p].uid => d \in users'
        /\ \A u \in Usernames : \A pw \in StrongPasswords :
              LoginFind(p, u, pw)
              => IF \A d \in users : d.username /= u
                 THEN proc'[p].pc = "login_nouser_audit"
                 ELSE /\ proc'[p].uid = Named(u)._id
                      /\ proc'[p].pc =
                            IF IsLocked(Named(u)) THEN "login_locked_audit"
                            ELSE IF verify_password(pw, Named(u).hashed_password)
                            THEN "login_success_update"
                            ELSE "login_fail_audit"
                      /\ proc'[p].pc = "login_fail_audit"
                         => proc'[p].upd.failed_login_attempts =
                               Named(u).failed_login_attempts + 1
        /\ ReqResetFind(p, "a@x.io")
           => IF \A d \in users : d.email /= "a@x.io"
              THEN proc'[p].pc = "reqreset_nouser_audit"
              ELSE /\ proc'[p].pc = "reqreset_push"
                   /\ DocOf(users, proc'[p].uid).email = "a@x.io"
        /\ \A t \in TokenInputs :
              ResetFind(p, t, "Passw0rd!B")
              => IF \A d \in users : t \notin TokensOf(d)
                 THEN proc'[p].pc = "reset_fail_audit"
                 ELSE /\ proc'[p].pc = "reset_update"
                      /\ t \in TokensOf(DocOf(users, proc'[p].uid))
        /\ (\/ ProfileFind(p, "alice", "Bea", NoStr)
            \/ RoleFind(p, "alice", "admin")
            \/ DeleteFind(p, "alice", "Passw0rd!A"))
           => IF \A d \in users : d.username /= "alice"
              THEN proc'[p].res = Err("User not found")
              ELSE /\ proc'[p].uid = Named("alice")._id
                   /\ proc'[p].pc \in {"profile_update", "role_update",
                                        "delete_one", "delete_fail_audit"}
                   /\ proc'[p].pc = "delete_fail_audit"
                      <=> /\ proc'[p].op = "delete"
                          /\ ~verify_password("Passw0rd!A",
                                              Named("alice").hashed_password)
      ]_vars

\* C25 witness: bob's account is locked with his reset token outstanding,
\* exactly as at the start, while on alice's account a login has succeeded
\* and her token has been redeemed for a new password.
C25_Witness ==
    /\ BobAfter(MAX_LOGIN_ATTEMPTS, 1) \in users
    /\ \E d \in users :
          /\ d.username = "alice"
          /\ d.hashed_password = hash_password("Passw0rd!B")
          /\ d.password_reset_tokens = <<>>
    /\ \E p \in Procs : \E q \in Procs :
          /\ proc[p].pc = "done" /\ proc[p].op = "login"
          /\ proc[p].res = Ok("bearer")
          /\ proc[q].pc = "done" /\ proc[q].op = "reset"
          /\ proc[q].res = Ok("Password reset successfully")

---------------------------------------------------------------------------
\* C26: lock expiry is lazy and starts a fresh cycle.  A login that looks
\* the account up with a lock expiry <= now goes to the unlock; the unlock
\* stores counter 0 and no lock expiry before the password is checked, and
\* a wrong password then counts as failure 1, with no new lock.  So when no
\* login is in flight and the audit log ends with n >= 1 failed_login
\* entries that follow a lock (an account_locked or a refused attempt), the
\* counter is n, n < 5 and the account is unlocked; and when it ends with
\* account_locked, the counter is 5 and the lock is set.
C26_LazyExpiryFreshCycle ==
    /\ [](Quiescent
          => LET n == TrailingFailures(audit)
                 d == DocOf(users, 1)
             IN /\ (/\ n >= 1
                     /\ audit[Len(audit) - n].event_type
                           \in {"account_locked", "login_attempt_locked"})
                    => /\ n < MAX_LOGIN_ATTEMPTS
                       /\ d.failed_login_attempts = n
                       /\ d.locked_until = None
                /\ audit[Len(audit)].event_type = "account_locked"
                    => /\ d.failed_login_attempts = MAX_LOGIN_ATTEMPTS
                       /\ d.locked_until /= None)
    /\ [][\A p \in Procs :
            /\ (/\ Starts(p, "login")
                /\ Found(FindByUsername(proc'[p].name))
                /\ FindByUsername(proc'[p].name).locked_until /= None
                /\ FindByUsername(proc'[p].name).locked_until <= now)
               => proc'[p].pc = "login_unlock"
            /\ (proc[p].pc = "login_unlock" /\ proc'[p] /= proc[p])
               => /\ DocOf(users', proc[p].uid).failed_login_attempts = 0
                  /\ DocOf(users', proc[p].uid).locked_until = None
                  /\ ~verify_password(proc[p].pw, proc[p].doc.hashed_password)
                     => /\ proc'[p].pc = "login_fail_audit"
                        /\ proc'[p].upd = [failed_login_attempts |-> 1]
                        /\ proc'[p].ev.event_type = "failed_login"
         ]_vars

\* C26 witness: the account was locked with counter 5, the lock has
\* expired, and a wrong-password login has returned leaving counter 1 and
\* no lock.
C26_Witness ==
    /\ Quiescent
    /\ now >= LOCKOUT_DURATION_MINUTES
    /\ TrailingFailures(audit) = 1
    /\ audit[Len(audit) - 1].event_type = "account_locked"
    /\ DocOf(users, 1).failed_login_attempts = 1
    /\ DocOf(users, 1).locked_until = None
    /\ \E p \in Procs : proc[p].pc = "done" /\ proc[p].res = InvalidCredential

---------------------------------------------------------------------------
\* p enters a login whose password matches the stored hash of an inactive
\* account.
StartsInactiveMatch(p) ==
    /\ Starts(p, "login")
    /\ Found(FindByUsername(proc'[p].name))
    /\ ~FindByUsername(proc'[p].name).is_active
    /\ verify_password(proc'[p].pw, FindByUsername(proc'[p].name).hashed_password)

\* The Inactive answer: the failure entry is appended, the error is
\* returned without a session, and no account is written.
InactiveAnswer(p) ==
    (proc[p].pc = "login_inactive_audit" /\ proc'[p] /= proc[p])
    => /\ proc'[p].pc = "done"
       /\ proc'[p].res = Err("Account is deactivated")
       /\ audit' = Append(audit, proc[p].ev)
       /\ proc[p].ev.event_type = "login_attempt_inactive"
       /\ proc[p].ev.username = proc[p].name
       /\ proc[p].ev.success = FALSE
       /\ users' = users

\* C27 as stated: every login whose password matches an inactive account
\* gets the Inactive answer and writes no account.
C27_InactiveLoginEveryState ==
    [][\A p \in Procs :
        /\ StartsInactiveMatch(p)
           => proc'[p].pc = "login_inactive_audit" /\ users' = users
        /\ InactiveAnswer(p)
      ]_vars

\* C27 as amended: a login whose password matches an inactive account gets
\* the Inactive answer unless the account is locked at that time; with no
\* lock set it writes no account; with an expired lock the lazy unlock
\* clears lock and counter and nothing else, and the Inactive answer
\* follows.  last_login is never stamped on the inactive account.
C27_InactiveLoginUnlessLocked ==
    /\ [](\A d \in users : ~d.is_active => d.last_login = None)
    /\ [][\A p \in Procs :
          /\ StartsInactiveMatch(p)
             => LET d == FindByUsername(proc'[p].name)
                IN /\ users' = users
                   /\ proc'[p].pc =
                         IF d.locked_until = None THEN "login_inactive_audit"
                         ELSE IF d.locked_until > now THEN "login_locked_audit"
                         ELSE "login_unlock"
          /\ (/\ proc[p].pc = "login_unlock"
              /\ proc'[p] /= proc[p]
              /\ ~proc[p].doc.is_active
              /\ verify_password(proc[p].pw, proc[p].doc.hashed_password))
             => /\ proc'[p].pc = "login_inactive_audit"
                /\ \A d \in users :
                      [d EXCEPT !.locked_until = None,
                                !.failed_login_attempts = 0] \in users'
          /\ InactiveAnswer(p)
       ]_vars

\* C27 witness: the inactive account has 3 failures stored, a login with
\* the right password has been answered Inactive, its failure entry is the
\* last of the audit log, and the counter is still 3.
C27_Witness ==
    /\ \E d \in users :
          /\ ~d.is_active
          /\ d.failed_login_attempts = 3
          /\ d.last_login = None
    /\ audit[Len(audit)].event_type = "login_attempt_inactive"
    /\ \E p \in Procs :
          /\ proc[p].pc = "done" /\ proc[p].op = "login"
          /\ proc[p].res = Err("Account is deactivated")

---------------------------------------------------------------------------
\* C28: a login with a username that no account has writes nothing in its
\* first step and goes to the no-such-user answer; that answer appends
\* exactly one failed_login entry with that username and success false,
\* returns InvalidCredential, and leaves the users collection as it was.
C28_UnknownUserLogin ==
    [][\A p \in Procs :
        /\ (/\ Starts(p, "login")
            /\ \A d \in users : d.username /= proc'[p].name)
           => /\ proc'[p].pc = "login_nouser_audit"
              /\ users' = users
              /\ audit' = audit
        /\ (proc[p].pc = "login_nouser_audit" /\ proc'[p] /= proc[p])
           => /\ proc'[p].pc = "done"
              /\ proc'[p].res = InvalidCredential
              /\ Len(audit') = Len(audit) + 1
              /\ SubSeq(audit', 1, Len(audit)) = audit
              /\ audit'[Len(audit')].event_type = "failed_login"
              /\ audit'[Len(audit')].username = proc[p].name
              /\ audit'[Len(audit')].success = FALSE
              /\ users' = users
      ]_vars

\* C28 witness: a login as bob, who has no account, has returned
\* InvalidCredential; its failed_login entry is in the audit log and the
\* collection still holds alice's account alone.
C28_Witness ==
    /\ Cardinality(users) = 1
    /\ \A d \in users : d.username = "alice"
    /\ CountEntries(audit, "bob", {"failed_login"}) = 1
    /\ audit[Len(audit)].username = "bob"
    /\ \E p \in Procs :
          /\ proc[p].pc = "done" /\ proc[p].op = "login"
          /\ proc[p].res = InvalidCredential

---------------------------------------------------------------------------
\* This step appends one audit entry of the given type and success flag
\* under the username p's call was given, and nothing else.
AppendsOne(p, type, ok) ==
    /\ Len(audit') = Len(audit) + 1
    /\ SubSeq(audit', 1, Len(audit)) = audit
    /\ audit'[Len(audit')].event_type = type
    /\ audit'[Len(audit')].username = proc[p].name
    /\ audit'[Len(audit')].success = ok

\* C29: every login call appends exactly one audit entry, of the type of
\* its outcome.  The call's first step and its unlock append nothing and
\* lead to one of the answers; each answer appends its one entry: the
\* unknown user failed_login and InvalidCredential; the locked account
\* login_attempt_locked and Locked; the mismatch failed_login, or
\* account_locked when the counter it stores reaches 5 and sets the lock,
\* then the counter write (which appends nothing) and InvalidCredential;
\* the inactive account login_attempt_inactive and Inactive; the success
\* update appends nothing and login_success follows with the session.  The
\* success flag is true for login_success only.
C29_OneAuditEventPerLogin ==
    [][\A p \in Procs :
        /\ Starts(p, "login")
           => /\ audit' = audit
              /\ proc'[p].pc \in {"login_nouser_audit", "login_locked_audit",
                                  "login_unlock", "login_fail_audit",
                                  "login_inactive_audit", "login_success_update"}
        /\ (InFlight(p) /\ proc[p].op = "login" /\ proc'[p] /= proc[p])
           => CASE proc[p].pc = "login_nouser_audit" ->
                     /\ AppendsOne(p, "failed_login", FALSE)
                     /\ proc'[p].pc = "done"
                     /\ proc'[p].res = InvalidCredential
                [] proc[p].pc = "login_locked_audit" ->
                     /\ AppendsOne(p, "login_attempt_locked", FALSE)
                     /\ proc'[p].pc = "done"
                     /\ proc'[p].res.msg = LockedMsg
                     /\ ~proc'[p].res.success
                [] proc[p].pc = "login_unlock" ->
                     /\ audit' = audit
                     /\ proc'[p].pc \in {"login_fail_audit", "login_inactive_audit",
                                         "login_success_update"}
                [] proc[p].pc = "login_fail_audit" ->
                     /\ AppendsOne(p, IF proc[p].upd.failed_login_attempts
                                          >= MAX_LOGIN_ATTEMPTS
                                      THEN "account_locked" ELSE "failed_login",
                                   FALSE)
                     /\ ("locked_until" \in DOMAIN proc[p].upd)
                        <=> (proc[p].upd.failed_login_attempts >= MAX_LOGIN_ATTEMPTS)
                     /\ proc'[p].pc = "login_fail_update"
                     /\ proc'[p].upd = proc[p].upd
                [] proc[p].pc = "login_fail_update" ->
                     /\ audit' = audit
                     /\ proc'[p].pc = "done"
                     /\ proc'[p].res = InvalidCredential
                [] proc[p].pc = "login_inactive_audit" ->
                     /\ AppendsOne(p, "login_attempt_inactive", FALSE)
                     /\ proc'[p].pc = "done"
                     /\ proc'[p].res = Err("Account is deactivated")
                [] proc[p].pc = "login_success_update" ->
                     /\ audit' = audit
                     /\ proc'[p].pc = "login_success_audit"
                [] proc[p].pc = "login_success_audit" ->
                     /\ AppendsOne(p, "login_success", TRUE)
                     /\ proc'[p].pc = "done"
                     /\ proc'[p].res = Ok("bearer")
      ]_vars

\* C29 witness: from 4 stored failures, a wrong-password login has logged
\* account_locked and a further login has logged login_attempt_locked: two
\* calls have returned and the audit log has grown by exactly two entries.
C29_Witness ==
    /\ Quiescent
    /\ ops = MaxOps - 2
    /\ Len(audit) = MAX_LOGIN_ATTEMPTS + 2
    /\ audit[Len(audit) - 1].event_type = "account_locked"
    /\ audit[Len(audit)].event_type = "login_attempt_locked"
    /\ \E p \in Procs : proc[p].pc = "done" /\ proc[p].res.msg = LockedMsg

---------------------------------------------------------------------------
\* C30: in every state, every stored failed-attempt counter is within 0..5,
\* and a counter equal to 5 comes with a lock expiry that is set.
C30_CounterWithinBounds ==
    \A d \in users :
        /\ d.failed_login_attempts \in 0..MAX_LOGIN_ATTEMPTS
        /\ d.failed_login_attempts = MAX_LOGIN_ATTEMPTS => d.locked_until /= None

\* C30 witness: a redemption has set the new password and cleared the
\* counter, and a wrong-password login that had read counter 4 before has
\* then stored counter 5 with the lock.
C30_Witness ==
    /\ Redeemed(1)
    /\ audit[Len(audit)].event_type = "password_reset_success"
    /\ \E d \in users :
          /\ d.hashed_password = hash_password("Passw0rd!B")
          /\ d.failed_login_attempts = MAX_LOGIN_ATTEMPTS
          /\ d.locked_until /= None
    /\ \E p \in Procs :
          /\ proc[p].pc = "done" /\ proc[p].op = "login"
          /\ proc[p].res = InvalidCredential

---------------------------------------------------------------------------
\* C31: in every state, under any interleaving of logins on one account, an
\* account whose lock expiry is set has failed-attempt counter 5; so no
\* successful login leaves counter 0 next to a lock that is still running.
C31_LockedMeansFiveFailures ==
    \A d \in users :
        d.locked_until /= None => d.failed_login_attempts = MAX_LOGIN_ATTEMPTS

---------------------------------------------------------------------------
\* C32: a login that looks the account up while now < lock expiry writes
\* nothing in that step and goes to the Locked answer; the answer appends
\* exactly one login_attempt_locked entry for that username and leaves the
\* users collection as it was: counter, lock expiry and last-login of the
\* account are the ones the login found.
C32_LockedLoginFrame ==
    [][\A p \in Procs :
        /\ (/\ Starts(p, "login")
            /\ Found(FindByUsername(proc'[p].name))
            /\ IsLocked(FindByUsername(proc'[p].name)))
           => /\ proc'[p].pc = "login_locked_audit"
              /\ users' = users
              /\ audit' = audit
        /\ (proc[p].pc = "login_locked_audit" /\ proc'[p] /= proc[p])
           => /\ proc'[p].pc = "done"
              /\ proc'[p].res.msg = LockedMsg
              /\ audit' = Append(audit,
                     [event_type |-> "login_attempt_locked",
                      username |-> proc[p].name,
                      timestamp |-> proc[p].ev.timestamp,
                      success |-> FALSE])
              /\ users' = users
      ]_vars

\* C32 witness: on the account locked at its fifth failure, two logins have
\* been refused as locked one after the other before the lock expired; the
\* record is still the one the fifth failure left.
C32_Witness ==
    /\ Quiescent
    /\ now < LOCKOUT_DURATION_MINUTES
    /\ CountEntries(audit, "alice", {"login_attempt_locked"}) = 2
    /\ users = {AfterFailures(Alice, MAX_LOGIN_ATTEMPTS)}
    /\ \E p \in Procs : proc[p].pc = "done" /\ proc[p].res.msg = LockedMsg

---------------------------------------------------------------------------
\* C33: on a password mismatch the new counter (and the lock expiry when
\* the threshold is reached) is always stored, whatever happens to the
\* audit append: the step that ends a login on the mismatch path, by a
\* return or by an exception, leaves the account with the counter and the
\* lock expiry that this login computed.
C33_MismatchAlwaysPersisted ==
    [][\A p \in Procs :
        (/\ proc[p].pc \in {"login_fail_audit", "login_fail_update"}
         /\ Finished(p)'
         /\ Exists(users', proc[p].uid))
        => LET d == DocOf(users', proc[p].uid)
               upd == proc[p].upd
           IN /\ d.failed_login_attempts = upd.failed_login_attempts
              /\ "locked_until" \in DOMAIN upd
                    => d.locked_until = upd.locked_until
      ]_vars

---------------------------------------------------------------------------
\* C34: delete_account neither reads nor writes lockout state.  Its first
\* step writes nothing and goes on to the deletion exactly when the password
\* matches the stored hash, whatever the counter and the lock expiry of the
\* account are; the refusal of a wrong password appends its audit entry and
\* leaves the users collection (so the counter and the lock expiry) as it
\* was; the deletion removes the account, locked or not.
C34_DeleteIgnoresLockout ==
    [][\A p \in Procs :
        /\ \A u \in Usernames, pw \in StrongPasswords :
             (DeleteFind(p, u, pw) /\ Found(FindByUsername(u)))
             => /\ users' = users
                /\ audit' = audit
                /\ proc'[p].pc \in {"delete_one", "delete_fail_audit"}
                /\ proc'[p].pc = "delete_one"
                     <=> verify_password(pw, FindByUsername(u).hashed_password)
        /\ (proc[p].pc = "delete_fail_audit" /\ proc'[p] /= proc[p])
           => /\ users' = users
              /\ proc'[p].pc = "done"
              /\ proc'[p].res = Err("Incorrect password")
              /\ Len(audit') = Len(audit) + 1
              /\ audit'[Len(audit')].event_type = "account_deletion_failed"
        /\ (proc[p].pc = "delete_one" /\ proc'[p] /= proc[p])
           => /\ ~Exists(users', proc[p].uid)
              /\ proc'[p].pc = "delete_audit"
      ]_vars

\* C34 witness: on the account locked until minute 15 with counter 5, a
\* deletion with a wrong password has been refused and a deletion with the
\* right password has then removed the account, all before the lock expired.
C34_Witness ==
    /\ Quiescent
    /\ now < LOCKOUT_DURATION_MINUTES
    /\ users = {}
    /\ CountEntries(audit, "alice", {"account_locked"}) = 1
    /\ audit[Len(audit) - 1].event_type = "account_deletion_failed"
    /\ audit[Len(audit)].event_type = "account_deleted"
    /\ \E p \in Procs :
          /\ proc[p].pc = "done" /\ proc[p].op = "delete"
          /\ proc[p].res = Ok("Account deleted successfully")

---------------------------------------------------------------------------
\* C35: reset_password returns success only if it changed the password of
\* an existing account.  A call reaches its success answer only through its
\* update; so at every update of a redemption the account it read still
\* exists and still holds the token, and the update leaves that account
\* with the hash of the call's new password and without the token.
C35_SuccessMeansPasswordChanged ==
    [][\A p \in Procs :
        (proc[p].pc = "reset_update" /\ proc'[p] /= proc[p])
        => /\ Exists(users, proc[p].uid)
           /\ Exists(users', proc[p].uid)
           /\ \E i \in 1..Len(DocOf(users, proc[p].uid).password_reset_tokens) :
                 DocOf(users, proc[p].uid).password_reset_tokens[i].token
                    = proc[p].tok
           /\ DocOf(users', proc[p].uid).hashed_password
                 = hash_password(proc[p].pw)
           /\ ~Holds({DocOf(users', proc[p].uid)}, proc[p].tok)
      ]_vars

====
